---- MODULE Spec2Model ----
(***************************************************************************)
(* VidFlowX player core: the State Store (hooks/useVideoState.ts), the     *)
(* Action Dispatcher (useVideoActions, hooks/index.ts) and the Event       *)
(* Bridge (components/VideoPlayer/VideoPlayer.tsx) over one playback       *)
(* surface (an HTMLVideoElement or an embed).                              *)
(*                                                                         *)
(* React's setState(updater) queue is modelled by applying each updater to *)
(* `state` at once (updaters run in call order on the previous result);    *)
(* `stateRef` is stateRef.current, which the hook only reassigns while     *)
(* rendering, so it lags `state` until the Render step.                    *)
(***************************************************************************)
EXTENDS Integers, Naturals, Sequences, FiniteSets, TLC

VARIABLES
  state,                \* useVideoState: the PlayerState held by useState
  stateRef,             \* useVideoState: stateRef.current (last rendered state)
  video,                \* the playback surface (HTMLVideoElement attributes)
  platform,             \* document / container fullscreen and PiP facilities
  pending,              \* outstanding promises of async platform requests,
                        \* the surface's queued 'seeking' / 'seeked', and
                        \* the default-caption timeouts not yet fired
  playlist,             \* the playlist prop (PlaylistConfig)
  currentPlaylistIndex, \* useVideoActions: currentPlaylistIndex.current
  surfaceSrc,           \* the src handed to NativeVideo (parsedSource.url)
  threw,                \* TRUE iff the last call raised an exception
  lastOp,               \* name of the operation that produced this state
  props,                \* VideoPlayer props: volume, muted, playbackRate, ...
  controls,             \* useControlsVisibility: state, refs, timer, callbacks
  hook,                 \* useVideoPlayer: ref.current and the state it returned
  pluginLog,            \* names of the plugin hooks that have been called
  call,                 \* the last recorded call of a function: name, argument, result
  previousTimeRef,      \* VideoPlayer: previousTimeRef.current
  emitted               \* event callbacks (onPlay, onSeek, ...) of the last
                        \* observed event, each with its data

vars == <<state, stateRef, video, platform, pending, playlist,
          currentPlaylistIndex, surfaceSrc, threw, lastOp,
          props, controls, hook, pluginLog, call, previousTimeRef, emitted>>

\* what the store, the dispatcher and the surface's events leave alone
outer == <<props, controls, hook, pluginLog, call, previousTimeRef, emitted>>

(***************************************************************************)
(* Bounds                                                                  *)
(***************************************************************************)
MaxTime == 2        \* media times and durations range over 0..MaxTime
MaxPending == 1     \* promises of async requests outstanding at a time
MaxTimeouts == 2    \* default-caption timeouts outstanding at a time
MaxTracks == 2      \* caption tracks of a player
MaxItems == 3       \* playlist length ranges over 1..MaxItems

Null == "null"
NoSource == <<>>    \* a falsy source: null (or the empty string)

(***************************************************************************)
(* utils: clamp, getPlayedPercent.  Percentages are exact rationals        *)
(* <<numerator, denominator>> in lowest terms.                             *)
(***************************************************************************)
RECURSIVE GCD(_, _)
GCD(a, b) == IF b = 0 THEN a ELSE GCD(b, a % b)

Rat(n, d) == LET g == GCD(n, d) IN <<n \div g, d \div g>>

Min(a, b) == IF a < b THEN a ELSE b
Max(a, b) == IF a > b THEN a ELSE b

clamp(value, min, max) == Min(Max(value, min), max)

getPlayedPercent(currentTime, duration) ==
  IF duration = 0 THEN Rat(0, 1)
  ELSE Rat(clamp(currentTime * 100, 0, 100 * duration), duration)

\* volumes and playback rates are rationals as well
Zero == Rat(0, 1)
One == Rat(1, 1)

RatLess(a, b) == a[1] * b[2] < b[1] * a[2]
RatMin(a, b) == IF RatLess(a, b) THEN a ELSE b
RatMax(a, b) == IF RatLess(b, a) THEN a ELSE b
RatClamp(value, min, max) == RatMin(RatMax(value, min), max)

\* TimeRanges | null: the ranges are a sequence of <<start, end>> pairs
NullRanges == [null |-> TRUE, ranges |-> <<>>]
TimeRanges(ranges) == [null |-> FALSE, ranges |-> ranges]

getBufferedPercent(buffered, duration) ==
  IF buffered.null \/ Len(buffered.ranges) = 0 \/ duration = 0 THEN Rat(0, 1)
  ELSE LET bufferedEnd == buffered.ranges[Len(buffered.ranges)][2]
       IN Rat(clamp(bufferedEnd * 100, 0, 100 * duration), duration)

(***************************************************************************)
(* utils/sourceDetector.  A source string is written as a sequence of      *)
(* tokens; Chars gives the string's characters, and the detector's url is  *)
(* that sequence of characters: each regular expression of the source is   *)
(* matched on it.  The URLs of the model are lower-case, so the patterns'  *)
(* i flag and their A-Z ranges are covered by the lower-case letters.      *)
(***************************************************************************)
\* the string literals of the patterns and of the URLs of the model
Literals ==
  {"https://", "youtu.be/", "youtube.com/", "youtube.com/watch?v=",
   "vimeo.com/", "video/", "player.vimeo.com/video/",
   "dailymotion.com/", "embed/video/", "dai.ly/", "facebook.com/",
   "watch", "/videos/", "video.php?v=", "fb.watch/", "tiktok.com/",
   "tiktok.com/@", "tiktok.com/@u/video/", "/video/", "embed/", "v/",
   "e/", "?v=", "&v=", "/", "abc12345678", "1234567", "clip", "video",
   ".mp4", ".m3u8", ".mpd", "?x=1"}

\* the characters of a string literal
CharsOf ==
  [t \in Literals |->
     CASE t = "https://" -> <<"h", "t", "t", "p", "s", ":", "/", "/">>
       [] t = "youtu.be/" -> <<"y", "o", "u", "t", "u", ".", "b", "e", "/">>
       [] t = "youtube.com/" -> <<"y", "o", "u", "t", "u", "b", "e", ".", "c", "o", "m", "/">>
       [] t = "youtube.com/watch?v=" -> <<"y", "o", "u", "t", "u", "b", "e", ".", "c", "o", "m", "/", "w", "a", "t", "c", "h", "?", "v", "=">>
       [] t = "vimeo.com/" -> <<"v", "i", "m", "e", "o", ".", "c", "o", "m", "/">>
       [] t = "video/" -> <<"v", "i", "d", "e", "o", "/">>
       [] t = "player.vimeo.com/video/" -> <<"p", "l", "a", "y", "e", "r", ".", "v", "i", "m", "e", "o", ".", "c", "o", "m", "/", "v", "i", "d", "e", "o", "/">>
       [] t = "dailymotion.com/" -> <<"d", "a", "i", "l", "y", "m", "o", "t", "i", "o", "n", ".", "c", "o", "m", "/">>
       [] t = "embed/video/" -> <<"e", "m", "b", "e", "d", "/", "v", "i", "d", "e", "o", "/">>
       [] t = "dai.ly/" -> <<"d", "a", "i", ".", "l", "y", "/">>
       [] t = "facebook.com/" -> <<"f", "a", "c", "e", "b", "o", "o", "k", ".", "c", "o", "m", "/">>
       [] t = "watch" -> <<"w", "a", "t", "c", "h">>
       [] t = "/videos/" -> <<"/", "v", "i", "d", "e", "o", "s", "/">>
       [] t = "video.php?v=" -> <<"v", "i", "d", "e", "o", ".", "p", "h", "p", "?", "v", "=">>
       [] t = "fb.watch/" -> <<"f", "b", ".", "w", "a", "t", "c", "h", "/">>
       [] t = "tiktok.com/" -> <<"t", "i", "k", "t", "o", "k", ".", "c", "o", "m", "/">>
       [] t = "tiktok.com/@" -> <<"t", "i", "k", "t", "o", "k", ".", "c", "o", "m", "/", "@">>
       [] t = "tiktok.com/@u/video/" -> <<"t", "i", "k", "t", "o", "k", ".", "c", "o", "m", "/", "@", "u", "/", "v", "i", "d", "e", "o", "/">>
       [] t = "/video/" -> <<"/", "v", "i", "d", "e", "o", "/">>
       [] t = "embed/" -> <<"e", "m", "b", "e", "d", "/">>
       [] t = "v/" -> <<"v", "/">>
       [] t = "e/" -> <<"e", "/">>
       [] t = "?v=" -> <<"?", "v", "=">>
       [] t = "&v=" -> <<"&", "v", "=">>
       [] t = "/" -> <<"/">>
       [] t = "abc12345678" -> <<"a", "b", "c", "1", "2", "3", "4", "5", "6", "7", "8">>
       [] t = "1234567" -> <<"1", "2", "3", "4", "5", "6", "7">>
       [] t = "clip" -> <<"c", "l", "i", "p">>
       [] t = "video" -> <<"v", "i", "d", "e", "o">>
       [] t = ".mp4" -> <<".", "m", "p", "4">>
       [] t = ".m3u8" -> <<".", "m", "3", "u", "8">>
       [] t = ".mpd" -> <<".", "m", "p", "d">>
       [] t = "?x=1" -> <<"?", "x", "=", "1">>]

\* a token that is no literal of the table is one character (a digit)
Str(t) == IF t \in Literals THEN CharsOf[t] ELSE <<t>>

RECURSIVE Chars(_)
Chars(url) == IF url = <<>> THEN <<>> ELSE Str(Head(url)) \o Chars(Tail(url))

Digits == {"0", "1", "2", "3", "4", "5", "6", "7", "8", "9"}   \* \d
Letters ==
  {"a", "b", "c", "d", "e", "f", "g", "h", "i", "j", "k", "l", "m",
   "n", "o", "p", "q", "r", "s", "t", "u", "v", "w", "x", "y", "z"}
Alnum == Letters \cup Digits                                  \* [a-zA-Z0-9]

\* the positions of c at which an occurrence of the literal ends
Ends(c, lit) ==
  LET l == Str(lit)
  IN {p \in Len(l)..Len(c) :
        c[p] = l[Len(l)] /\ SubSeq(c, p - Len(l) + 1, p) = l}

\* the literal directly after a match ending in P; the literal after P and .*
After(c, P, lit) ==
  IF P = {} THEN {} ELSE {p \in Ends(c, lit) : p - Len(Str(lit)) \in P}

Later(c, P, lit) ==
  IF P = {} THEN {}
  ELSE {p \in Ends(c, lit) : \E q \in P : p - Len(Str(lit)) >= q}

\* [^\/]+ directly after a match ending in P, then the literal
AfterSegment(c, P, lit) ==
  IF P = {} THEN {}
  ELSE {p \in Ends(c, lit) :
          \E q \in P : /\ p - Len(Str(lit)) >= q + 1
                       /\ \A k \in (q + 1)..(p - Len(Str(lit))) : c[k] # "/"}

\* a character of the class directly after a match ending in P: the group
\* ([class]+) takes part in the match
Group(c, P, class) == \E p \in P : p + 1 <= Len(c) /\ c[p + 1] \in class

\* every character of c is of the class
AllOf(c, class) == \A k \in 1..Len(c) : c[k] \in class

\* the result of url.match(pattern): whether it matched, and whether match[1]
\* is a non-empty string
Match(found) == [match |-> found, group1 |-> found]
MatchNoGroup(found) == [match |-> found, group1 |-> FALSE]

YOUTUBE_PATTERNS(c) ==
  LET host == Ends(c, "youtube.com/")
      prefix ==
        UNION { IF host = {} THEN {}
                ELSE {p \in Ends(c, "/") :
                        \E q \in AfterSegment(c, host, "/") : p >= q + 2},
                After(c, host, "v/"), After(c, host, "e/"), After(c, host, "embed/"),
                Later(c, host, "?v="), Later(c, host, "&v="),
                Ends(c, "youtu.be/") }
  IN << Match(\E p \in prefix :
                /\ p + 11 <= Len(c)
                /\ \A k \in 1..11 : c[p + k] \notin {"\"", "&", "?", "/", " "}),
        MatchNoGroup(Len(c) = 11 /\ AllOf(c, Alnum \cup {"_", "-"})) >>

VIMEO_PATTERNS(c) ==
  LET host == Ends(c, "vimeo.com/")
      prefix == UNION { host, After(c, host, "video/"),
                        Ends(c, "player.vimeo.com/video/") }
  IN << Match(Group(c, prefix, Digits)),
        MatchNoGroup(Len(c) >= 7 /\ AllOf(c, Digits)) >>

DAILYMOTION_PATTERNS(c) ==
  LET host == Ends(c, "dailymotion.com/")
      prefix == UNION { After(c, host, "video/"), After(c, host, "embed/video/"),
                        Ends(c, "dai.ly/") }
  IN << Match(Group(c, prefix, Alnum)) >>

FACEBOOK_PATTERNS(c) ==
  LET host == Ends(c, "facebook.com/")
      watch == After(c, host, "watch")
      prefix == UNION { After(c, watch, "?v="), After(c, After(c, watch, "/"), "?v="),
                        Later(c, host, "/videos/"), After(c, host, "video.php?v=") }
  IN << Match(Group(c, prefix, Digits)),
        Match(Group(c, Ends(c, "fb.watch/"), Alnum)) >>

TIKTOK_PATTERNS(c) ==
  << Match(Group(c, AfterSegment(c, Ends(c, "tiktok.com/@"), "/video/"), Digits)),
     Match(Group(c, Later(c, Ends(c, "tiktok.com/"), "/video/"), Digits)) >>

\* the manifest suffix, then the end of the URL or a query string
HLS_PATTERN(url) ==
  \E p \in Ends(url, ".m3u8") : p = Len(url) \/ url[p + 1] = "?"

DASH_PATTERN(url) ==
  \E p \in Ends(url, ".mpd") : p = Len(url) \/ url[p + 1] = "?"

\* the loop of every extractor: some pattern matches with a truthy match[1];
\* whether the extractor returns an id
FirstGroup(patterns) ==
  \E i \in 1..Len(patterns) : patterns[i].match /\ patterns[i].group1

extractYouTubeId(url) ==
  \/ FirstGroup(YOUTUBE_PATTERNS(url))
  \/ (Len(url) = 11 /\ AllOf(url, Alnum \cup {"_", "-"}))

extractVimeoId(url) == FirstGroup(VIMEO_PATTERNS(url))

extractDailymotionId(url) == FirstGroup(DAILYMOTION_PATTERNS(url))

extractFacebookId(url) == FirstGroup(FACEBOOK_PATTERNS(url))

extractTikTokId(url) == FirstGroup(TIKTOK_PATTERNS(url))

detectSourceType_PlatformFirst(url) ==
  IF extractYouTubeId(url) THEN "youtube"
  ELSE IF extractVimeoId(url) THEN "vimeo"
  ELSE IF extractDailymotionId(url) THEN "dailymotion"
  ELSE IF extractFacebookId(url) THEN "facebook"
  ELSE IF extractTikTokId(url) THEN "tiktok"
  ELSE IF HLS_PATTERN(url) THEN "hls"
  ELSE IF DASH_PATTERN(url) THEN "dash"
  ELSE "file"

detectSourceType(url) ==
  IF HLS_PATTERN(url) THEN "hls"
  ELSE IF DASH_PATTERN(url) THEN "dash"
  ELSE IF extractYouTubeId(url) THEN "youtube"
  ELSE IF extractVimeoId(url) THEN "vimeo"
  ELSE IF extractDailymotionId(url) THEN "dailymotion"
  ELSE IF extractFacebookId(url) THEN "facebook"
  ELSE IF extractTikTokId(url) THEN "tiktok"
  ELSE "file"

\* parseSource on a string source: {type, url}
parseSource(source) ==
  [type |-> detectSourceType(Chars(source)), url |-> source]

\* parseSource on a source that is already a descriptor object
parseSourceObject(source) == source

(***************************************************************************)
(* utils/formatTime.  A string is the sequence of its characters; a number *)
(* that may be NaN is a record.  The seconds of the model are integers, so *)
(* isFinite holds and Math.floor is the identity.                          *)
(***************************************************************************)
Abs(n) == IF n < 0 THEN -n ELSE n

\* Number.prototype.toString of a non-negative integer
RECURSIVE toString(_)
toString(n) ==
  LET digit == <<"0", "1", "2", "3", "4", "5", "6", "7", "8", "9">>[(n % 10) + 1]
  IN IF n < 10 THEN <<digit>> ELSE Append(toString(n \div 10), digit)

RECURSIVE padStart(_, _, _)
padStart(str, targetLength, padString) ==
  IF Len(str) >= targetLength THEN str
  ELSE padStart(<<padString>> \o str, targetLength, padString)

RECURSIVE join(_, _)
join(parts, separator) ==
  IF Len(parts) = 0 THEN <<>>
  ELSE IF Len(parts) = 1 THEN parts[1]
  ELSE parts[1] \o separator \o join(Tail(parts), separator)

formatTime(seconds) ==
  LET totalSeconds == Abs(seconds)
      hours == totalSeconds \div 3600
      minutes == (totalSeconds % 3600) \div 60
      secs == totalSeconds % 60
      prefix == IF seconds < 0 THEN <<"-">> ELSE <<>>
  IN IF hours > 0
     THEN prefix \o toString(hours) \o <<":">>
            \o padStart(toString(minutes), 2, "0") \o <<":">>
            \o padStart(toString(secs), 2, "0")
     ELSE prefix \o toString(minutes) \o <<":">>
            \o padStart(toString(secs), 2, "0")

formatTimeVerbose(seconds) ==
  LET totalSeconds == Abs(seconds)
      hours == totalSeconds \div 3600
      minutes == (totalSeconds % 3600) \div 60
      secs == totalSeconds % 60
      parts1 == IF hours > 0 THEN <<toString(hours) \o <<"h">>>> ELSE <<>>
      parts2 == IF minutes > 0 THEN Append(parts1, toString(minutes) \o <<"m">>)
                ELSE parts1
      parts == IF secs > 0 \/ Len(parts2) = 0
               THEN Append(parts2, toString(secs) \o <<"s">>)
               ELSE parts2
  IN join(parts, <<" ">>)

Number(n) == [nan |-> FALSE, n |-> n]
NaN == [nan |-> TRUE, n |-> 0]

Plus(a, b) == IF a.nan \/ b.nan THEN NaN ELSE Number(a.n + b.n)
Times(a, k) == IF a.nan THEN NaN ELSE Number(a.n * k)

Whitespace == {" "}                                            \* \s

\* the length of the longest run of characters of the class that starts at i
RECURSIVE Run(_, _, _)
Run(str, i, class) ==
  IF i <= Len(str) /\ str[i] \in class THEN 1 + Run(str, i + 1, class) ELSE 0

\* the value of a string of decimal digits
RECURSIVE Decimal(_)
Decimal(str) ==
  IF Len(str) = 0 THEN 0
  ELSE 10 * Decimal(SubSeq(str, 1, Len(str) - 1))
         + (CHOOSE d \in 0..9 : toString(d) = <<str[Len(str)]>>)

\* parseInt(str, 10): leading whitespace, an optional sign, the digits that
\* follow; NaN when no digit follows
parseInt(str) ==
  LET start == 1 + Run(str, 1, Whitespace)
      signed == start <= Len(str) /\ str[start] \in {"-", "+"}
      first == IF signed THEN start + 1 ELSE start
      n == Run(str, first, Digits)
      value == Decimal(SubSeq(str, first, first + n - 1))
  IN IF n = 0 THEN NaN
     ELSE IF signed /\ str[start] = "-" THEN Number(-value) ELSE Number(value)

RECURSIVE trim(_)
trim(str) ==
  IF Len(str) > 0 /\ Head(str) \in Whitespace THEN trim(Tail(str))
  ELSE IF Len(str) > 0 /\ str[Len(str)] \in Whitespace
  THEN trim(SubSeq(str, 1, Len(str) - 1))
  ELSE str

\* String.prototype.split on a one-character separator
RECURSIVE split(_, _)
split(str, separator) ==
  IF \E i \in 1..Len(str) : str[i] = separator
  THEN LET i == CHOOSE k \in 1..Len(str) :
                  str[k] = separator /\ \A j \in 1..(k - 1) : str[j] # separator
       IN <<SubSeq(str, 1, i - 1)>> \o split(SubSeq(str, i + 1, Len(str)), separator)
  ELSE <<str>>

verboseMatch_NoWhitespace(timeString) ==
  LET group(i, unit) ==
        LET n == Run(timeString, i, Digits)
        IN IF n > 0 /\ i + n <= Len(timeString) /\ timeString[i + n] = unit
           THEN SubSeq(timeString, i, i + n - 1) ELSE <<>>
      next(i, g) == IF g = <<>> THEN i ELSE i + Len(g) + 1
      h == group(1, "h")
      m == group(next(1, h), "m")
  IN <<h, m, group(next(next(1, h), m), "s")>>

\* timeString.match(/(?:(\d+)h)?\s*(?:(\d+)m)?\s*(?:(\d+)s)?/i): every part
\* of the pattern is optional, so the match starts at index 0; a group is
\* the digits before its unit letter, or <<>> when the group takes no part
verboseMatch(timeString) ==
  LET group(i, unit) ==
        LET n == Run(timeString, i, Digits)
        IN IF n > 0 /\ i + n <= Len(timeString) /\ timeString[i + n] = unit
           THEN SubSeq(timeString, i, i + n - 1) ELSE <<>>
      next(i, g) == IF g = <<>> THEN i ELSE i + Len(g) + 1
      h == group(1, "h")
      atM == next(1, h) + Run(timeString, next(1, h), Whitespace)
      m == group(atM, "m")
      atS == next(atM, m) + Run(timeString, next(atM, m), Whitespace)
  IN <<h, m, group(atS, "s")>>

parseTime(timeString) ==
  LET match == verboseMatch(timeString)
      orZero(g) == IF g = <<>> THEN <<"0">> ELSE g
      parts == [i \in DOMAIN split(timeString, ":") |->
                  parseInt(trim(split(timeString, ":")[i]))]
  IN IF match[1] # <<>> \/ match[2] # <<>> \/ match[3] # <<>>
     THEN Plus(Plus(Times(parseInt(orZero(match[1])), 3600),
                    Times(parseInt(orZero(match[2])), 60)),
               parseInt(orZero(match[3])))
     ELSE IF Len(parts) = 3
     THEN Plus(Plus(Times(parts[1], 3600), Times(parts[2], 60)), parts[3])
     ELSE IF Len(parts) = 2 THEN Plus(Times(parts[1], 60), parts[2])
     ELSE IF Len(parts) = 1 /\ ~parts[1].nan THEN parts[1]
     ELSE Number(0)

(***************************************************************************)
(* State Store: hooks/useVideoState.ts                                     *)
(***************************************************************************)
PlaybackStates ==
  {"idle", "loading", "playing", "paused", "buffering", "ended", "error"}

initialState ==
  [ playbackState |-> "idle",
    isPlaying |-> FALSE,
    isPaused |-> TRUE,
    isBuffering |-> FALSE,
    isEnded |-> FALSE,
    isLoading |-> FALSE,
    currentTime |-> 0,
    duration |-> 0,
    buffered |-> NullRanges,
    bufferedPercent |-> Rat(0, 1),
    playedPercent |-> Rat(0, 1),
    volume |-> One,
    isMuted |-> FALSE,
    playbackRate |-> One,
    isFullscreen |-> FALSE,
    isPip |-> FALSE,
    activeCaptionIndex |-> -1,
    source |-> NoSource,
    sourceType |-> Null,
    error |-> Null,
    controlsVisible |-> TRUE,
    quality |-> Null ]

\* useVideoState(options): the state handed to useState
useVideoState(options) ==
  [initialState EXCEPT !.volume = options.initialVolume,
                       !.isMuted = options.initialMuted,
                       !.playbackRate = options.initialPlaybackRate]

\* updateState(key, value): setState(prev => ({...prev, [key]: value}))
updateState(prev, key, value) == [prev EXCEPT ![key] = value]

\* updateStateMultiple(updates): only the keys present in `updates` change
updateStateMultiple(prev, updates) ==
  [k \in DOMAIN prev |-> IF k \in DOMAIN updates THEN updates[k] ELSE prev[k]]

setPlaybackState(prev, playbackState) ==
  [prev EXCEPT !.playbackState = playbackState,
               !.isPlaying = (playbackState = "playing"),
               !.isPaused = (playbackState = "paused" \/ playbackState = "idle"),
               !.isBuffering = (playbackState = "buffering"),
               !.isEnded = (playbackState = "ended"),
               !.isLoading = (playbackState = "loading")]

setSource(prev, source) ==
  IF source = NoSource
  THEN updateStateMultiple(prev,
         [ source |-> NoSource,
           sourceType |-> Null,
           playbackState |-> "idle",
           isPlaying |-> FALSE,
           isPaused |-> TRUE,
           currentTime |-> 0,
           duration |-> 0,
           error |-> Null ])
  ELSE updateStateMultiple(prev,
         [ source |-> source,
           sourceType |-> parseSource(source).type,
           playbackState |-> "idle",
           isLoading |-> FALSE,
           isPlaying |-> FALSE,
           isPaused |-> TRUE,
           error |-> Null ])

\* setCurrentTime / setDuration read the other operand from stateRef.current
setCurrentTime(prev, ref, currentTime) ==
  updateStateMultiple(prev,
    [ currentTime |-> currentTime,
      playedPercent |-> getPlayedPercent(currentTime, ref.duration) ])

setDuration(prev, ref, duration) ==
  updateStateMultiple(prev,
    [ duration |-> duration,
      playedPercent |-> getPlayedPercent(ref.currentTime, duration) ])

\* setBuffered reads the duration from stateRef.current
setBuffered(prev, ref, buffered) ==
  updateStateMultiple(prev,
    [ buffered |-> buffered,
      bufferedPercent |-> getBufferedPercent(buffered, ref.duration) ])

setVolume(prev, volume) ==
  LET clampedVolume == RatMax(Zero, RatMin(One, volume))
  IN updateState(prev, "volume", clampedVolume)

setMuted(prev, isMuted) == updateState(prev, "isMuted", isMuted)

setPlaybackRate(prev, playbackRate) == updateState(prev, "playbackRate", playbackRate)

setControlsVisible(prev, controlsVisible) ==
  updateState(prev, "controlsVisible", controlsVisible)

setFullscreen(prev, isFullscreen) == updateState(prev, "isFullscreen", isFullscreen)

setActiveCaption(prev, activeCaptionIndex) ==
  updateState(prev, "activeCaptionIndex", activeCaptionIndex)

setPip(prev, isPip) == updateState(prev, "isPip", isPip)

setError(prev, error) ==
  IF error # Null
  THEN updateStateMultiple(prev,
         [ error |-> error,
           playbackState |-> "error",
           isPlaying |-> FALSE,
           isPaused |-> TRUE,
           isLoading |-> FALSE ])
  ELSE updateState(prev, "error", Null)

resetState(ref) ==
  [initialState EXCEPT !.volume = ref.volume,
                       !.isMuted = ref.isMuted,
                       !.playbackRate = ref.playbackRate]

(***************************************************************************)
(* Inputs: sources, playlists, errors                                      *)
(***************************************************************************)
SrcFile == <<"clip", ".mp4">>
SrcHls == <<"video", ".m3u8", "?x=1">>
SrcYouTube == <<"youtu.be/", "abc12345678">>

\* playlist.items[i].src, i a 0-based index
ItemSrc(i) ==
  IF i = 0 THEN SrcFile
  ELSE IF i = 1 THEN SrcHls
  ELSE <<"video", ToString(i + 1), ".mp4">>

PropSources == {SrcFile, SrcYouTube}
Sources == PropSources \cup {SrcHls}

\* rejections of video.play() (DOMException names); the 'error' event's Error
PlayRejections == {"AbortError", "NotAllowedError", "NotSupportedError"}
MediaError == "Error"

NoPlaylist == [n |-> 0, startIndex |-> 0, autoPlayNext |-> FALSE, loop |-> FALSE]

\* the playlist of the README example, cut to two items
ReadmePlaylist == [n |-> 2, startIndex |-> 0, autoPlayNext |-> TRUE, loop |-> TRUE]

isNativeSource(type) == type \in {"file", "hls", "dash"}

isEmbeddedSource(type) ==
  type \in {"youtube", "vimeo", "dailymotion", "facebook", "tiktok"}

\* VideoPlayer: parsedSource = useMemo(() => parseSource(src), [src]), for
\* each src the prop takes
parsedSource == [src \in Sources |-> parseSource(src)]

\* VideoPlayer: isNative, i.e. NativeVideo is rendered and videoRef.current is set
isNative ==
  IF surfaceSrc = NoSource THEN TRUE
  ELSE isNativeSource(parsedSource[surfaceSrc].type)

\* the auto-hide delay of the controls, in ms (controlsAutoHide = 3000)
HideDelay == 3000

\* VideoPlayer's defaults for the props the model follows
DefaultProps ==
  [ volume |-> One, muted |-> FALSE, playbackRate |-> One,
    controlsAutoHide |-> HideDelay, plugins |-> <<>>, captions |-> <<>> ]

\* a newly created <video muted={muted}>: volume 1, rate 1, paused, no media
NewVideo(muted) ==
  [ paused |-> TRUE, currentTime |-> 0, duration |-> 0,
    volume |-> One, muted |-> muted, playbackRate |-> One, textTracks |-> <<>> ]

\* NativeVideo: the <video> with one <track> child per caption; the mode of
\* each text track, none of them shown yet
NativeVideo(p) ==
  [NewVideo(p.muted) EXCEPT !.textTracks = [i \in 1..Len(p.captions) |-> "disabled"]]

\* useControlsVisibility after its first commit: isVisible and the value of
\* it last rendered, isHovering and its ref, isPlayingRef, whether the hide
\* timeout is outstanding, whether the document's focus is inside the
\* container, and the onVisibilityChange calls of the last step
InitialControls ==
  [ isVisible |-> TRUE, shown |-> TRUE, isHovering |-> FALSE,
    isHoveringRef |-> FALSE, isPlayingRef |-> FALSE, timer |-> FALSE,
    focusWithin |-> FALSE, calls |-> <<>> ]

\* useVideoPlayer: the state literal returned while ref.current is null
defaultState == initialState

InitialHook == [attached |-> FALSE, state |-> defaultState]

NoCall == [fn |-> "none", arg |-> <<>>, result |-> <<>>]

NoPending ==
  [ play |-> 0, enterFullscreen |-> 0, exitFullscreen |-> 0,
    enterPip |-> 0, exitPip |-> 0, seeking |-> <<>>, seeked |-> FALSE,
    captionTimeout |-> 0 ]

(***************************************************************************)
(* Initial state: the component has been mounted with its props and no    *)
(* src; the effects of the first commit have run.                          *)
(***************************************************************************)
Mounted(p) ==
  /\ props = p
  /\ state = useVideoState([ initialVolume |-> p.volume,
                             initialMuted |-> p.muted,
                             initialPlaybackRate |-> p.playbackRate ])
  /\ stateRef = state
  /\ video = NativeVideo(p)
  /\ controls = InitialControls
  /\ hook = InitialHook
  /\ pluginLog = IF p.plugins = <<>> THEN {} ELSE {"onInit"}
  /\ previousTimeRef = 0
  /\ emitted = <<>>

\* everything but the component's own state
Idle ==
  /\ pending = NoPending
  /\ surfaceSrc = NoSource
  /\ threw = FALSE
  /\ lastOp = "init"

InitCommon ==
  /\ Mounted(DefaultProps)
  /\ Idle
  /\ call = NoCall

DefaultPlatform ==
  [ requestFullscreen |-> TRUE, exitFullscreen |-> TRUE, pipEnabled |-> TRUE,
    fullscreenElement |-> FALSE, pictureInPictureElement |-> FALSE ]

\* the player without a playlist
InitPlain ==
  /\ InitCommon
  /\ platform = DefaultPlatform
  /\ playlist = NoPlaylist
  /\ currentPlaylistIndex = 0

\* useVideoActions: currentPlaylistIndex = useRef(playlist?.startIndex ?? 0)
Init ==
  /\ InitCommon
  /\ platform = DefaultPlatform
  /\ playlist \in {NoPlaylist, ReadmePlaylist}
  /\ currentPlaylistIndex = playlist.startIndex

\* every call that returns normally
Returned(op) == lastOp' = op /\ threw' = FALSE

(***************************************************************************)
(* Visibility timer: hooks/useControlsVisibility.ts.  Each operator maps   *)
(* the hook's record c to the record after the call, under the options o   *)
(* that VideoPlayer passes.                                                *)
(***************************************************************************)

\* VideoPlayer: hideDelay: controlsAutoHide, enabled: controlsAutoHide > 0
ControlsOptions ==
  [hideDelay |-> props.controlsAutoHide, enabled |-> props.controlsAutoHide > 0]

\* onVisibilityChangeRef.current?.(visible)
notify(c, visible) == [c EXCEPT !.calls = Append(@, visible)]

clearHideTimeout(c) == [c EXCEPT !.timer = FALSE]

startHideTimer(c, o) ==
  IF ~o.enabled \/ o.hideDelay = 0 THEN c
  ELSE [clearHideTimeout(c) EXCEPT !.timer = TRUE]

hideTimeout_NoRefCheck(c) ==
  notify([c EXCEPT !.timer = FALSE, !.isVisible = FALSE], FALSE)

\* the callback handed to setTimeout
hideTimeout(c) ==
  LET c1 == [c EXCEPT !.timer = FALSE]
  IN IF c1.isPlayingRef /\ ~c1.isHoveringRef
     THEN notify([c1 EXCEPT !.isVisible = FALSE], FALSE)
     ELSE c1

showControls(c, o) ==
  LET c1 == notify([c EXCEPT !.isVisible = TRUE], TRUE)
  IN IF c1.isPlayingRef /\ ~c1.isHoveringRef THEN startHideTimer(c1, o) ELSE c1

hideControls_NoEnabledCheck(c, o) ==
  notify([clearHideTimeout(c) EXCEPT !.isVisible = FALSE], FALSE)

hideControls(c, o) ==
  IF ~o.enabled THEN c
  ELSE notify([clearHideTimeout(c) EXCEPT !.isVisible = FALSE], FALSE)

handleMouseMove(c, o) == IF ~c.isHoveringRef THEN showControls(c, o) ELSE c

handleMouseEnter(c) ==
  clearHideTimeout(notify([c EXCEPT !.isHovering = TRUE, !.isVisible = TRUE], TRUE))

handleMouseLeave(c, o) ==
  LET c1 == [c EXCEPT !.isHovering = FALSE]
  IN IF c1.isPlayingRef THEN startHideTimer(c1, o) ELSE c1

\* the handler closes over the isVisible of the render that created it
handleTouchStart(c, o) ==
  IF c.shown
  THEN IF c.isPlayingRef THEN hideControls(c, o) ELSE c
  ELSE showControls(c, o)

\* focus enters the container or moves inside it
handleFocusIn(c) ==
  clearHideTimeout(notify([c EXCEPT !.isVisible = TRUE, !.focusWithin = TRUE], TRUE))

handleFocusOut_NoTimer(c, o) == [c EXCEPT !.focusWithin = FALSE]

\* focus leaves the container
handleFocusOut(c, o) ==
  LET c1 == [c EXCEPT !.focusWithin = FALSE]
  IN IF c1.isPlayingRef THEN startHideTimer(c1, o) ELSE c1

\* the effects of a commit: the refs take the rendered isPlaying and
\* isHovering, and when one of the two has changed the playing-state effect
\* is cleaned up and run again
controlsEffects(c, o, isPlaying) ==
  LET changed == isPlaying # c.isPlayingRef \/ c.isHovering # c.isHoveringRef
      c0 == [c EXCEPT !.calls = <<>>,
                      !.shown = c.isVisible,
                      !.isPlayingRef = isPlaying,
                      !.isHoveringRef = c.isHovering]
  IN IF ~changed THEN c0
     ELSE LET c1 == clearHideTimeout(c0)
          IN IF isPlaying /\ ~c1.isHovering THEN startHideTimer(c1, o)
             ELSE IF ~isPlaying
                  THEN notify([clearHideTimeout(c1) EXCEPT !.isVisible = TRUE], TRUE)
                  ELSE c1

\* handleControlsVisibilityChange: every callback goes to setControlsVisible
handleControlsVisibilityChange(prev, calls) ==
  IF calls = <<>> THEN prev ELSE setControlsVisible(prev, calls[Len(calls)])

(***************************************************************************)
(* React commit: stateRef.current = state (useVideoState.ts:61-62), then   *)
(* the effects whose dependencies changed: those of useControlsVisibility  *)
(* and the plugin effect, which depends on `state`.                        *)
(***************************************************************************)
pluginEffect(log) ==
  IF props.plugins # <<>> /\ stateRef # state
  THEN log \cup {"onDestroy", "onInit"}
  ELSE log

Render ==
  /\ \/ stateRef # state
     \/ controls.isHovering # controls.isHoveringRef
     \/ controls.isVisible # controls.shown
  /\ stateRef' = state
  /\ controls' = controlsEffects(controls, ControlsOptions, state.isPlaying)
  /\ state' = handleControlsVisibilityChange(state, controls'.calls)
  /\ pluginLog' = pluginEffect(pluginLog)
  /\ Returned("render")
  /\ UNCHANGED <<video, platform, pending, playlist, currentPlaylistIndex,
                 surfaceSrc, props, hook, call, previousTimeRef, emitted>>

\* pointer, touch, focus and timer events on the player's container
ControlsStep(c, op) ==
  /\ controls' = c
  /\ state' = handleControlsVisibilityChange(state, c.calls)
  /\ Returned(op)
  /\ UNCHANGED <<stateRef, video, platform, pending, playlist,
                 currentPlaylistIndex, surfaceSrc, props, hook, pluginLog, call,
                 previousTimeRef, emitted>>

Quiet == [controls EXCEPT !.calls = <<>>]

MouseMove == ControlsStep(handleMouseMove(Quiet, ControlsOptions), "mousemove")

MouseEnter == ControlsStep(handleMouseEnter(Quiet), "mouseenter")

MouseLeave == ControlsStep(handleMouseLeave(Quiet, ControlsOptions), "mouseleave")

TouchStart == ControlsStep(handleTouchStart(Quiet, ControlsOptions), "touchstart")

FocusIn == ControlsStep(handleFocusIn(Quiet), "focusin")

FocusOut ==
  /\ controls.focusWithin
  /\ ControlsStep(handleFocusOut(Quiet, ControlsOptions), "focusout")

HideTimeout ==
  /\ controls.timer
  /\ ControlsStep(hideTimeout(Quiet), "hide timeout")

(***************************************************************************)
(* The src prop: the effect `if (src) stateManager.setSource(src)` and     *)
(* NativeVideo's `video.src = src`, which starts a new load.  A change     *)
(* between a native and an embedded source unmounts one surface and mounts *)
(* the other, so a later native source gets a new video element.           *)
(***************************************************************************)
SrcProp(s) ==
  /\ s # surfaceSrc
  /\ surfaceSrc' = s
  /\ video' = IF isNative /\ isNativeSource(parsedSource[s].type)
              THEN [video EXCEPT !.paused = TRUE, !.currentTime = 0, !.duration = 0]
              ELSE NativeVideo(props)
  /\ state' = setSource(state, s)
  /\ Returned("srcProp")
  /\ UNCHANGED <<stateRef, platform, pending, playlist, currentPlaylistIndex, outer>>

SrcPropChange == \E s \in PropSources : SrcProp(s)

(***************************************************************************)
(* Store setters called directly on the useVideoState hook                 *)
(***************************************************************************)
StoreUnchangedRest ==
  UNCHANGED <<stateRef, video, platform, pending, playlist,
              currentPlaylistIndex, surfaceSrc, outer>>

StoreSetPlaybackState ==
  \E p \in PlaybackStates :
    /\ state' = setPlaybackState(state, p)
    /\ Returned("setPlaybackState")
    /\ StoreUnchangedRest

StoreSetSource ==
  \E s \in Sources \cup {NoSource} :
    /\ state' = setSource(state, s)
    /\ Returned("setSource")
    /\ StoreUnchangedRest

\* ranges within 0..hi: ordered, disjoint, at most two of them, the first
\* one from the start of the media
Ranges(hi) == {r \in (0..hi) \X (0..hi) : r[1] <= r[2]}

RangeLists(hi) ==
  {<<>>} \cup {<<r>> : r \in {q \in Ranges(hi) : q[1] = 0}}
         \cup {l \in Ranges(hi) \X Ranges(hi) : l[1][1] = 0 /\ l[1][2] < l[2][1]}

StoreSetBuffered ==
  \E b \in {NullRanges} \cup {TimeRanges(l) : l \in RangeLists(MaxTime)} :
    /\ state' = setBuffered(state, stateRef, b)
    /\ Returned("setBuffered")
    /\ StoreUnchangedRest

StoreSetDuration ==
  \E d \in 0..MaxTime :
    /\ state' = setDuration(state, stateRef, d)
    /\ Returned("setDuration")
    /\ StoreUnchangedRest

StoreSetError ==
  \E e \in {Null, MediaError} :
    /\ state' = setError(state, e)
    /\ Returned("setError")
    /\ StoreUnchangedRest

StoreResetState ==
  /\ state' = resetState(stateRef)
  /\ Returned("resetState")
  /\ StoreUnchangedRest

(***************************************************************************)
(* Action Dispatcher: useVideoActions (hooks/index.ts)                     *)
(***************************************************************************)
Outstanding ==
  pending.play + pending.enterFullscreen + pending.exitFullscreen
    + pending.enterPip + pending.exitPip

CanRequest == Outstanding < MaxPending

Inc(kind) == [pending EXCEPT ![kind] = @ + 1]
Dec(kind) == [pending EXCEPT ![kind] = @ - 1]

\* play(): video.play() clears the paused flag and returns a promise; the
\* store is written only by the catch block, when the promise rejects
play_Optimistic ==
  IF isNative
  THEN /\ CanRequest
       /\ video' = [video EXCEPT !.paused = FALSE]
       /\ pending' = Inc("play")
       /\ state' = setPlaybackState(state, "playing")
  ELSE UNCHANGED <<video, pending, state>>

play ==
  IF isNative
  THEN /\ CanRequest
       /\ video' = [video EXCEPT !.paused = FALSE]
       /\ pending' = Inc("play")
       /\ state' = state
  ELSE UNCHANGED <<video, pending, state>>

pause ==
  IF isNative
  THEN /\ video' = [video EXCEPT !.paused = TRUE]
       /\ state' = setPlaybackState(state, "paused")
       /\ pending' = pending
  ELSE UNCHANGED <<video, pending, state>>

Play ==
  /\ play
  /\ Returned("play")
  /\ UNCHANGED <<stateRef, platform, playlist, currentPlaylistIndex, surfaceSrc,
                 outer>>

\* the awaited video.play() settles: resolved, nothing is written
PlayResolved ==
  /\ pending.play > 0
  /\ ~video.paused
  /\ pending' = Dec("play")
  /\ Returned("playResolved")
  /\ UNCHANGED <<state, stateRef, video, platform, playlist,
                 currentPlaylistIndex, surfaceSrc, outer>>

\* the catch block of play(): AbortError is what a pause() or a new load
\* gives an outstanding play(); any other rejection leaves the surface paused
playCatch_NoAbortCheck(prev, name) == setError(prev, name)

playCatch(prev, name) == IF name # "AbortError" THEN setError(prev, name) ELSE prev

PlayRejected ==
  \E name \in PlayRejections :
    /\ pending.play > 0
    /\ name = "AbortError" => video.paused
    /\ pending' = Dec("play")
    /\ video' = [video EXCEPT !.paused = TRUE]
    /\ state' = playCatch(state, name)
    /\ Returned(name)
    /\ UNCHANGED <<stateRef, platform, playlist, currentPlaylistIndex, surfaceSrc,
                   outer>>

Pause ==
  /\ pause
  /\ Returned("pause")
  /\ UNCHANGED <<stateRef, platform, playlist, currentPlaylistIndex, surfaceSrc,
                 outer>>

TogglePlay ==
  /\ IF isNative /\ ~video.paused THEN pause ELSE play
  /\ Returned("togglePlay")
  /\ UNCHANGED <<stateRef, platform, playlist, currentPlaylistIndex, surfaceSrc,
                 outer>>

stop ==
  /\ IF isNative
     THEN /\ video' = [video EXCEPT !.paused = TRUE, !.currentTime = 0]
          /\ state' = setPlaybackState(setCurrentTime(state, stateRef, 0), "idle")
     ELSE UNCHANGED <<video, state>>
  /\ Returned("stop")
  /\ UNCHANGED <<stateRef, platform, pending, playlist, currentPlaylistIndex,
                 surfaceSrc, props, controls, hook, pluginLog,
                 previousTimeRef, emitted>>

Stop == stop /\ UNCHANGED call

seek_StoreDuration(time) ==
  /\ IF isNative
     THEN LET clampedTime == clamp(time, 0, state.duration) IN
          /\ video' = [video EXCEPT !.currentTime = clampedTime]
          /\ state' = setCurrentTime(state, stateRef, clampedTime)
     ELSE UNCHANGED <<video, state>>
  /\ UNCHANGED <<stateRef, platform, playlist, currentPlaylistIndex,
                 surfaceSrc, props, controls, hook, pluginLog,
                 previousTimeRef, emitted>>

\* seek(time): the surface's duration is 0 in the model while it is unknown
seek(time) ==
  /\ IF isNative
     THEN LET clampedTime == clamp(time, 0, video.duration) IN
          /\ video' = [video EXCEPT !.currentTime = clampedTime]
          /\ state' = setCurrentTime(state, stateRef, clampedTime)
     ELSE UNCHANGED <<video, state>>
  /\ UNCHANGED <<stateRef, platform, playlist, currentPlaylistIndex,
                 surfaceSrc, props, controls, hook, pluginLog,
                 previousTimeRef, emitted>>

Seek ==
  \E time \in -1..(MaxTime + 1) :
    /\ seek(time)
    /\ Returned("seek")
    /\ UNCHANGED <<pending, call>>

\* Volume, mute and playback rate.  Each operator gives the surface and the
\* store after the call; without a video element the call returns at once.
Surf(vid, st) == [video |-> vid, state |-> st]

actionsSetVolume(native, vid, st, volume) ==
  IF ~native THEN Surf(vid, st)
  ELSE LET clampedVolume == RatClamp(volume, Zero, One)
           v1 == [vid EXCEPT !.volume = clampedVolume]
           s1 == setVolume(st, clampedVolume)
       IN IF RatLess(Zero, clampedVolume) /\ v1.muted
          THEN Surf([v1 EXCEPT !.muted = FALSE], setMuted(s1, FALSE))
          ELSE Surf(v1, s1)

mute(native, vid, st) ==
  IF ~native THEN Surf(vid, st)
  ELSE Surf([vid EXCEPT !.muted = TRUE], setMuted(st, TRUE))

unmute(native, vid, st) ==
  IF ~native THEN Surf(vid, st)
  ELSE Surf([vid EXCEPT !.muted = FALSE], setMuted(st, FALSE))

toggleMute(native, vid, st) ==
  IF ~native THEN Surf(vid, st)
  ELSE IF vid.muted THEN unmute(native, vid, st) ELSE mute(native, vid, st)

MinRate == Rat(1, 4)
MaxRate == Rat(4, 1)

actionsSetPlaybackRate(native, vid, st, rate) ==
  IF ~native THEN Surf(vid, st)
  ELSE LET clampedRate == RatClamp(rate, MinRate, MaxRate)
       IN Surf([vid EXCEPT !.playbackRate = clampedRate],
               setPlaybackRate(st, clampedRate))

\* arguments: below, inside and above the range
Volumes == {Rat(-1, 1), Zero, Rat(1, 2), One, Rat(3, 2)}
Rates == {Rat(1, 10), MinRate, One, MaxRate, Rat(5, 1)}

Apply(r, op) ==
  /\ video' = r.video
  /\ state' = r.state
  /\ Returned(op)
  /\ UNCHANGED <<stateRef, platform, pending, playlist, currentPlaylistIndex,
                 surfaceSrc, outer>>

SetVolume ==
  \E v \in Volumes : Apply(actionsSetVolume(isNative, video, state, v), "setVolume")

Mute == Apply(mute(isNative, video, state), "mute")

Unmute == Apply(unmute(isNative, video, state), "unmute")

ToggleMute == Apply(toggleMute(isNative, video, state), "toggleMute")

SetPlaybackRate ==
  \E r \in Rates :
    Apply(actionsSetPlaybackRate(isNative, video, state, r), "setPlaybackRate")

\* actions.setSource: stateManager.setSource(source); onSourceChange?.(source)
\* (VideoPlayer passes no onSourceChange, so nothing reaches the surface)
actionsSetSource(prev, source) == setSource(prev, source)

SetSource ==
  \E s \in Sources :
    /\ state' = actionsSetSource(state, s)
    /\ Returned("actions.setSource")
    /\ UNCHANGED <<stateRef, video, platform, pending, playlist,
                   currentPlaylistIndex, surfaceSrc, outer>>

(***************************************************************************)
(* Playlist navigation.  Each operator gives the cursor, the store and     *)
(* whether the call raised: playlist.items[i] is undefined outside         *)
(* 0..n-1, and reading .src of it is a TypeError, raised after the cursor  *)
(* has been assigned.                                                      *)
(***************************************************************************)
Nav(index, st, raised) == [index |-> index, state |-> st, threw |-> raised]

goTo(pl, st, index) ==
  IF index \in 0..(pl.n - 1)
  THEN Nav(index, actionsSetSource(st, ItemSrc(index)), FALSE)
  ELSE Nav(index, st, TRUE)

nextTrack_AlwaysWraps(pl, cur, st) ==
  IF pl.n = 0 THEN Nav(cur, st, FALSE)
  ELSE LET nextIndex == cur + 1 IN
       IF nextIndex < pl.n THEN goTo(pl, st, nextIndex)
       ELSE goTo(pl, st, 0)

nextTrack(pl, cur, st) ==
  IF pl.n = 0 THEN Nav(cur, st, FALSE)
  ELSE LET nextIndex == cur + 1 IN
       IF nextIndex < pl.n THEN goTo(pl, st, nextIndex)
       ELSE IF pl.loop THEN goTo(pl, st, 0)
       ELSE Nav(cur, st, FALSE)

previousTrack(pl, cur, st) ==
  IF pl.n = 0 THEN Nav(cur, st, FALSE)
  ELSE LET prevIndex == cur - 1 IN
       IF prevIndex >= 0 THEN goTo(pl, st, prevIndex)
       ELSE IF pl.loop THEN goTo(pl, st, pl.n - 1)
       ELSE Nav(cur, st, FALSE)

skipToTrack(pl, cur, st, index) ==
  IF pl.n = 0 THEN Nav(cur, st, FALSE)
  ELSE IF index >= 0 /\ index < pl.n THEN goTo(pl, st, index)
  ELSE Nav(cur, st, FALSE)

Navigate(r, op) ==
  /\ currentPlaylistIndex' = r.index
  /\ state' = r.state
  /\ threw' = r.threw
  /\ lastOp' = op
  /\ UNCHANGED <<stateRef, video, platform, pending, playlist, surfaceSrc, outer>>

NextTrack == Navigate(nextTrack(playlist, currentPlaylistIndex, state), "nextTrack")

PreviousTrack ==
  Navigate(previousTrack(playlist, currentPlaylistIndex, state), "previousTrack")

SkipToTrack ==
  \E index \in -1..(MaxItems + 1) :
    Navigate(skipToTrack(playlist, currentPlaylistIndex, state, index), "skipToTrack")

(***************************************************************************)
(* Fullscreen and Picture-in-Picture requests.  A request on a platform    *)
(* that has the primitive is awaited; the code after the await runs when   *)
(* the promise resolves.  Without a primitive the if-chain falls through   *)
(* and the code after it runs in the same call.                            *)
(***************************************************************************)
AsyncRest == UNCHANGED <<stateRef, video, playlist, currentPlaylistIndex, surfaceSrc, outer>>

enterFullscreen ==
  IF platform.requestFullscreen
  THEN /\ CanRequest
       /\ pending' = Inc("enterFullscreen")
       /\ state' = state
  ELSE /\ state' = setFullscreen(state, TRUE)
       /\ pending' = pending

exitFullscreen ==
  IF platform.exitFullscreen
  THEN /\ CanRequest
       /\ pending' = Inc("exitFullscreen")
       /\ state' = state
  ELSE /\ state' = setFullscreen(state, FALSE)
       /\ pending' = pending

EnterFullscreen ==
  /\ enterFullscreen
  /\ Returned("enterFullscreen")
  /\ platform' = platform
  /\ AsyncRest

ExitFullscreen ==
  /\ exitFullscreen
  /\ Returned("exitFullscreen")
  /\ platform' = platform
  /\ AsyncRest

ToggleFullscreen ==
  /\ IF stateRef.isFullscreen THEN exitFullscreen ELSE enterFullscreen
  /\ Returned("toggleFullscreen")
  /\ platform' = platform
  /\ AsyncRest

\* the code after `await container.requestFullscreen()`
EnterFullscreenResolved ==
  /\ pending.enterFullscreen > 0
  /\ platform.fullscreenElement
  /\ pending' = Dec("enterFullscreen")
  /\ state' = setFullscreen(state, TRUE)
  /\ Returned("enterFullscreenResolved")
  /\ platform' = platform
  /\ AsyncRest

\* the code after `await document.exitFullscreen()`
ExitFullscreenResolved ==
  /\ pending.exitFullscreen > 0
  /\ ~platform.fullscreenElement
  /\ pending' = Dec("exitFullscreen")
  /\ state' = setFullscreen(state, FALSE)
  /\ Returned("exitFullscreenResolved")
  /\ platform' = platform
  /\ AsyncRest

\* the catch blocks: console.error only
FullscreenRejected ==
  \E kind \in {"enterFullscreen", "exitFullscreen"} :
    /\ pending[kind] > 0
    /\ pending' = Dec(kind)
    /\ Returned("fullscreenRejected")
    /\ UNCHANGED <<state, platform>>
    /\ AsyncRest

enterPip ==
  IF isNative /\ platform.pipEnabled
  THEN /\ CanRequest
       /\ pending' = Inc("enterPip")
  ELSE pending' = pending

exitPip ==
  IF platform.pictureInPictureElement
  THEN /\ CanRequest
       /\ pending' = Inc("exitPip")
  ELSE pending' = pending

EnterPip ==
  /\ enterPip
  /\ Returned("enterPip")
  /\ UNCHANGED <<state, platform>>
  /\ AsyncRest

ExitPip ==
  /\ exitPip
  /\ Returned("exitPip")
  /\ UNCHANGED <<state, platform>>
  /\ AsyncRest

TogglePip ==
  /\ IF stateRef.isPip THEN exitPip ELSE enterPip
  /\ Returned("togglePip")
  /\ UNCHANGED <<state, platform>>
  /\ AsyncRest

\* the code after `await video.requestPictureInPicture()`
EnterPipResolved ==
  /\ pending.enterPip > 0
  /\ platform.pictureInPictureElement
  /\ pending' = Dec("enterPip")
  /\ state' = setPip(state, TRUE)
  /\ Returned("enterPipResolved")
  /\ platform' = platform
  /\ AsyncRest

\* the code after `await document.exitPictureInPicture()`
ExitPipResolved ==
  /\ pending.exitPip > 0
  /\ ~platform.pictureInPictureElement
  /\ pending' = Dec("exitPip")
  /\ state' = setPip(state, FALSE)
  /\ Returned("exitPipResolved")
  /\ platform' = platform
  /\ AsyncRest

PipRejected ==
  \E kind \in {"enterPip", "exitPip"} :
    /\ pending[kind] > 0
    /\ pending' = Dec(kind)
    /\ Returned("pipRejected")
    /\ UNCHANGED <<state, platform>>
    /\ AsyncRest

(***************************************************************************)
(* Event Bridge: platform events (VideoPlayer.tsx effects).  The platform  *)
(* enters fullscreen / PiP only for an outstanding request and may leave   *)
(* it at any time (Esc, the PiP window's close button).                    *)
(***************************************************************************)
handleFullscreenChange(prev, isFullscreen) == setFullscreen(prev, isFullscreen)

HandleFullscreenChange ==
  \E b \in BOOLEAN :
    /\ b # platform.fullscreenElement
    /\ b => pending.enterFullscreen > 0
    /\ platform' = [platform EXCEPT !.fullscreenElement = b]
    /\ state' = handleFullscreenChange(state, b)
    /\ Returned("fullscreenchange")
    /\ pending' = pending
    /\ AsyncRest

handleEnterPiP(prev) == setPip(prev, TRUE)
handleLeavePiP(prev) == setPip(prev, FALSE)

HandleEnterPiP ==
  /\ ~platform.pictureInPictureElement
  /\ pending.enterPip > 0
  /\ platform' = [platform EXCEPT !.pictureInPictureElement = TRUE]
  /\ state' = handleEnterPiP(state)
  /\ Returned("enterpictureinpicture")
  /\ pending' = pending
  /\ AsyncRest

HandleLeavePiP ==
  /\ platform.pictureInPictureElement
  /\ platform' = [platform EXCEPT !.pictureInPictureElement = FALSE]
  /\ state' = handleLeavePiP(state)
  /\ Returned("leavepictureinpicture")
  /\ pending' = pending
  /\ AsyncRest

(***************************************************************************)
(* Event Bridge: surface events (VideoPlayer.tsx handlers)                 *)
(***************************************************************************)
EventRest ==
  UNCHANGED <<stateRef, platform, pending, playlist, currentPlaylistIndex, surfaceSrc,
              outer>>

Loaded == isNative /\ surfaceSrc # NoSource

HandlePlay ==
  /\ Loaded /\ ~video.paused
  /\ state' = setPlaybackState(state, "playing")
  /\ Returned("play event")
  /\ video' = video
  /\ EventRest

HandlePause ==
  /\ Loaded /\ video.paused
  /\ state' = setPlaybackState(state, "paused")
  /\ Returned("pause event")
  /\ video' = video
  /\ EventRest

\* playback reaches the end: the surface pauses itself and fires 'ended';
\* with playlist.autoPlayNext the handler goes on to actions.nextTrack()
HandleEnded ==
  /\ Loaded /\ ~video.paused
  /\ video' = [video EXCEPT !.paused = TRUE, !.currentTime = video.duration]
  /\ LET ended == setPlaybackState(state, "ended")
         r == IF playlist.autoPlayNext
              THEN nextTrack(playlist, currentPlaylistIndex, ended)
              ELSE Nav(currentPlaylistIndex, ended, FALSE)
     IN /\ state' = r.state
        /\ currentPlaylistIndex' = r.index
        /\ threw' = r.threw
  /\ lastOp' = "ended event"
  /\ UNCHANGED <<stateRef, platform, pending, playlist, surfaceSrc, outer>>

HandleWaiting ==
  /\ Loaded /\ ~video.paused
  /\ state' = setPlaybackState(state, "buffering")
  /\ Returned("waiting event")
  /\ video' = video
  /\ EventRest

HandlePlaying ==
  /\ Loaded /\ ~video.paused
  /\ state' = setPlaybackState(state, "playing")
  /\ Returned("playing event")
  /\ video' = video
  /\ EventRest

\* the surface's clock moves while it plays
handleTimeUpdate(prev, ref, v) == setCurrentTime(prev, ref, v.currentTime)

HandleTimeUpdate ==
  \E t \in 0..video.duration :
    /\ Loaded
    /\ video' = [video EXCEPT !.currentTime = t]
    /\ state' = handleTimeUpdate(state, stateRef, video')
    /\ Returned("timeupdate event")
    /\ EventRest

handleDurationChange(prev, ref, v) == setDuration(prev, ref, v.duration)

\* 'durationchange': the surface's duration attribute has just been updated
HandleDurationChange ==
  \E d \in 1..MaxTime :
    /\ Loaded
    /\ d # video.duration
    /\ video' = [video EXCEPT !.duration = d, !.currentTime = Min(@, d)]
    /\ state' = handleDurationChange(state, stateRef, video')
    /\ Returned("durationchange event")
    /\ EventRest

\* 'volumechange': the surface's volume or muted attribute has been changed
\* from outside the dispatcher (native UI, a plugin holding videoElement);
\* the surface keeps its volume within [0,1]
handleVolumeChange(prev, v) == setMuted(setVolume(prev, v.volume), v.muted)

HandleVolumeChange ==
  \E vol \in {x \in Volumes : ~RatLess(x, Zero) /\ ~RatLess(One, x)}, m \in BOOLEAN :
    /\ isNative
    /\ <<vol, m>> # <<video.volume, video.muted>>
    /\ video' = [video EXCEPT !.volume = vol, !.muted = m]
    /\ state' = handleVolumeChange(state, video')
    /\ Returned("volumechange event")
    /\ EventRest

\* 'ratechange': the surface accepts any rate its platform supports
handleRateChange(prev, v) == setPlaybackRate(prev, v.playbackRate)

HandleRateChange ==
  \E r \in Rates :
    /\ isNative
    /\ r # video.playbackRate
    /\ video' = [video EXCEPT !.playbackRate = r]
    /\ state' = handleRateChange(state, video')
    /\ Returned("ratechange event")
    /\ EventRest

\* 'progress': video.buffered holds the ranges fetched so far, all of them
\* inside the media's duration
handleProgress(prev, ref, buffered) == setBuffered(prev, ref, buffered)

HandleProgress ==
  \E l \in RangeLists(video.duration) :
    /\ Loaded
    /\ state' = handleProgress(state, stateRef, TimeRanges(l))
    /\ Returned("progress event")
    /\ video' = video
    /\ EventRest

handleLoadedMetadata(prev, ref, v) ==
  updateStateMultiple(setDuration(prev, ref, v.duration), [isLoading |-> FALSE])

\* captions.findIndex((c) => c.default), 0-based, -1 when there is none
defaultCaptionIndex(captions) ==
  LET found == {i \in 1..Len(captions) : captions[i].default}
  IN IF found = {} THEN -1 ELSE (CHOOSE i \in found : \A j \in found : i <= j) - 1

\* the handler schedules the activation of the default caption track
SchedulesCaption(p, v) ==
  /\ Len(p.captions) > 0
  /\ defaultCaptionIndex(p.captions) >= 0
  /\ Len(v.textTracks) > 0

HandleLoadedMetadata ==
  /\ Loaded /\ video.duration > 0
  /\ state' = handleLoadedMetadata(state, stateRef, video)
  /\ IF SchedulesCaption(props, video)
     THEN /\ pending.captionTimeout < MaxTimeouts
          /\ pending' = [pending EXCEPT !.captionTimeout = @ + 1]
     ELSE pending' = pending
  /\ Returned("loadedmetadata event")
  /\ video' = video
  /\ UNCHANGED <<stateRef, platform, playlist, currentPlaylistIndex, surfaceSrc,
                 outer>>

\* handleLoadedData and handleCanPlay: updateStateMultiple({isLoading: false})
handleCanPlay(prev) == updateStateMultiple(prev, [isLoading |-> FALSE])

HandleCanPlay ==
  /\ Loaded
  /\ state' = handleCanPlay(state)
  /\ Returned("canplay event")
  /\ video' = video
  /\ EventRest

handleError(prev) == setError(prev, MediaError)

HandleError ==
  /\ Loaded
  /\ state' = handleError(state)
  /\ Returned("error event")
  /\ video' = video
  /\ EventRest

\* EmbeddedVideo: onReady (iframe load) and onPlay (click on the placeholder)
EmbedReady ==
  /\ ~isNative
  /\ state' = setPlaybackState(state, "paused")
  /\ Returned("embed ready")
  /\ video' = video
  /\ EventRest

EmbedPlay ==
  /\ ~isNative
  /\ state' = setPlaybackState(state, "playing")
  /\ Returned("embed play")
  /\ video' = video
  /\ EventRest

(***************************************************************************)
(* Specifications.  Each one runs the operations that read or write one    *)
(* group of fields; the fields no operation of the group writes keep their *)
(* initial values.                                                         *)
(***************************************************************************)

\* playback phase, error and source: store setters, playback actions and
\* the surface's playback events
Next ==
  \/ SrcPropChange
  \/ StoreSetPlaybackState
  \/ StoreSetSource
  \/ StoreSetError
  \/ StoreResetState
  \/ Play
  \/ PlayResolved
  \/ PlayRejected
  \/ Pause
  \/ TogglePlay
  \/ Stop
  \/ Seek
  \/ SetSource
  \/ NextTrack
  \/ PreviousTrack
  \/ SkipToTrack
  \/ HandlePlay
  \/ HandlePause
  \/ HandleEnded
  \/ HandleWaiting
  \/ HandlePlaying
  \/ HandleCanPlay
  \/ HandleError
  \/ EmbedReady
  \/ EmbedPlay

Spec == Init /\ [][Next]_vars

(***************************************************************************)
(* Properties of the playback phase (Spec)                                 *)
(***************************************************************************)

\* C1: in every reachable state the five derived booleans are the fixed
\* function of playbackState (isPlaying iff playing, isPaused iff paused or
\* idle, isBuffering iff buffering, isEnded iff ended, isLoading iff loading)
C1_DerivedFlagsFollowPhase ==
  /\ state.isPlaying = (state.playbackState = "playing")
  /\ state.isPaused = (state.playbackState \in {"paused", "idle"})
  /\ state.isBuffering = (state.playbackState = "buffering")
  /\ state.isEnded = (state.playbackState = "ended")
  /\ state.isLoading = (state.playbackState = "loading")

\* C2: a non-null error implies playbackState = 'error' with isPlaying and
\* isPaused both false
C2_ErrorImpliesErrorPhase ==
  state.error # Null =>
    /\ state.playbackState = "error"
    /\ ~state.isPlaying
    /\ ~state.isPaused

\* the steps of the Action Dispatcher: calls, and the settling of a play()
DispatcherOps ==
  { "play", "playResolved", "pause", "togglePlay", "stop", "seek",
    "actions.setSource", "nextTrack", "previousTrack", "skipToTrack" }
  \cup PlayRejections

\* C4: no Action Dispatcher step moves the phase to 'playing', and a play()
\* call (also through togglePlay on a paused surface) leaves the store as it
\* is: the phase becomes 'playing' only in a surface event's handler
C4_PlayingOnlyFromSurface ==
  [][ /\ lastOp' \in DispatcherOps =>
           (state'.playbackState = "playing" => state.playbackState = "playing")
      /\ (lastOp' = "play" \/ (lastOp' = "togglePlay" /\ video.paused)) =>
           state' = state ]_vars

\* C4 witness: a play() is outstanding on a surface that has started, and
\* the phase is still not 'playing'
C4_Witness ==
  /\ lastOp = "play"
  /\ pending.play > 0
  /\ ~video.paused
  /\ state.playbackState # "playing"

(***************************************************************************)
(* Asynchronous platform requests: play, fullscreen, Picture-in-Picture.   *)
(* The platform may lack the fullscreen or the PiP primitives.             *)
(***************************************************************************)
InitAsync ==
  /\ InitCommon
  /\ \E fs \in BOOLEAN, pip \in BOOLEAN :
       platform = [DefaultPlatform EXCEPT !.requestFullscreen = fs,
                                          !.exitFullscreen = fs,
                                          !.pipEnabled = pip]
  /\ playlist = NoPlaylist
  /\ currentPlaylistIndex = 0

NextAsync ==
  \/ SrcPropChange
  \/ Play
  \/ PlayResolved
  \/ PlayRejected
  \/ Pause
  \/ HandlePlay
  \/ HandleError
  \/ EnterFullscreen
  \/ ExitFullscreen
  \/ EnterFullscreenResolved
  \/ ExitFullscreenResolved
  \/ FullscreenRejected
  \/ EnterPip
  \/ ExitPip
  \/ EnterPipResolved
  \/ ExitPipResolved
  \/ PipRejected
  \/ HandleFullscreenChange
  \/ HandleEnterPiP
  \/ HandleLeavePiP

SpecAsync == InitAsync /\ [][NextAsync]_vars

\* fullscreen and Picture-in-Picture alone, with the toggles, which read the
\* last rendered state through getState()
NextScreen ==
  \/ Render
  \/ EnterFullscreen
  \/ ExitFullscreen
  \/ ToggleFullscreen
  \/ EnterFullscreenResolved
  \/ ExitFullscreenResolved
  \/ FullscreenRejected
  \/ EnterPip
  \/ ExitPip
  \/ TogglePip
  \/ EnterPipResolved
  \/ ExitPipResolved
  \/ PipRejected
  \/ HandleFullscreenChange
  \/ HandleEnterPiP
  \/ HandleLeavePiP

SpecScreen == InitAsync /\ [][NextScreen]_vars

FullscreenOps ==
  { "enterFullscreen", "exitFullscreen", "toggleFullscreen",
    "enterFullscreenResolved", "exitFullscreenResolved", "fullscreenRejected" }

PipOps ==
  { "enterPip", "exitPip", "togglePip",
    "enterPipResolved", "exitPipResolved", "pipRejected" }

\* C5: isFullscreen changes only in the handler of the platform's
\* fullscreen-change event and isPip only in the handlers of the
\* enter/leave picture-in-picture events; the request actions never write
C5_FlagsOnlyOnPlatformEvent ==
  [][ /\ state'.isFullscreen # state.isFullscreen => lastOp' = "fullscreenchange"
      /\ state'.isPip # state.isPip =>
           lastOp' \in {"enterpictureinpicture", "leavepictureinpicture"} ]_vars

\* C9: an aborted play() leaves the store unchanged; any other rejected
\* play() stores that rejection as error with phase 'error'; no other step of
\* the dispatcher sets an error, and no fullscreen or Picture-in-Picture
\* step (request, resolution, rejection, missing primitive) changes error
\* or playbackState
C9_OnlyPlayRejectionSetsError ==
  [][ /\ lastOp' = "AbortError" => state' = state
      /\ \A name \in PlayRejections \ {"AbortError"} :
           lastOp' = name =>
             /\ state'.error = name
             /\ state'.playbackState = "error"
      /\ lastOp' \in (DispatcherOps \ PlayRejections) \cup FullscreenOps \cup PipOps =>
           (state'.error # state.error => state'.error = Null)
      /\ lastOp' \in FullscreenOps \cup PipOps =>
           /\ state'.error = state.error
           /\ state'.playbackState = state.playbackState ]_vars

\* C9 witness: a play() was aborted by pause() while the surface had already
\* reported 'play', and the store still shows what pause() wrote
C9_Witness ==
  /\ lastOp = "AbortError"
  /\ state.playbackState = "paused"
  /\ state.error = Null
  /\ pending.play = 0

(***************************************************************************)
(* Time, duration and played percentage: the time setters read the other   *)
(* operand from stateRef.current, so the render step is part of this group *)
(***************************************************************************)
NextTime ==
  \/ Render
  \/ SrcPropChange
  \/ StoreSetSource
  \/ StoreResetState
  \/ SetSource
  \/ Seek
  \/ Stop
  \/ HandleTimeUpdate
  \/ HandleDurationChange
  \/ HandleLoadedMetadata

SpecTime == InitPlain /\ [][NextTime]_vars

\* C3: the stored playedPercent equals getPlayedPercent of the stored
\* currentTime and the stored duration, after any sequence of operations
\* that change them, with or without a render in between
C3_PlayedPercentConsistent ==
  state.playedPercent = getPlayedPercent(state.currentTime, state.duration)

SetSourceOps == {"setSource", "actions.setSource", "srcProp"}

\* C10: after setSource(s), currentTime = 0, duration = 0, error = null,
\* activeCaptionIndex = -1, the phase is 'idle', isLoading is false, source
\* and sourceType are s and its classification (null for null), and
\* volume, isMuted and playbackRate are unchanged
C10_SetSourceResets ==
  [][ lastOp' \in SetSourceOps =>
        /\ state'.currentTime = 0
        /\ state'.duration = 0
        /\ state'.error = Null
        /\ state'.activeCaptionIndex = -1
        /\ state'.playbackState = "idle"
        /\ ~state'.isLoading
        /\ state'.sourceType =
             (IF state'.source = NoSource THEN Null
              ELSE detectSourceType(Chars(state'.source)))
        /\ state'.volume = state.volume
        /\ state'.isMuted = state.isMuted
        /\ state'.playbackRate = state.playbackRate ]_vars

(***************************************************************************)
(* Buffered ranges and buffered percentage                                 *)
(***************************************************************************)
\* the player mounted with src = "clip.mp4"
InitBuffer ==
  /\ props = DefaultProps
  /\ state = setSource(useVideoState([ initialVolume |-> props.volume,
                                       initialMuted |-> props.muted,
                                       initialPlaybackRate |-> props.playbackRate ]),
                       SrcFile)
  /\ stateRef = state
  /\ video = NativeVideo(props)
  /\ controls = InitialControls
  /\ hook = InitialHook
  /\ pluginLog = {}
  /\ previousTimeRef = 0
  /\ emitted = <<>>
  /\ pending = NoPending
  /\ surfaceSrc = SrcFile
  /\ threw = FALSE
  /\ lastOp = "init"
  /\ call = NoCall
  /\ platform = DefaultPlatform
  /\ playlist = NoPlaylist
  /\ currentPlaylistIndex = 0

NextBuffer ==
  \/ Render
  \/ StoreSetBuffered
  \/ StoreSetDuration
  \/ HandleProgress
  \/ HandleDurationChange

SpecBuffer == InitBuffer /\ [][NextBuffer]_vars

\* C11: after every setBuffered call and after every later change of
\* duration (setDuration, setSource), bufferedPercent is the end of the last
\* stored buffered range over the stored duration as a percentage clamped to
\* [0,100], and 0 when buffered is null or empty or duration is 0
C11_BufferedPercentConsistent ==
  state.bufferedPercent = getBufferedPercent(state.buffered, state.duration)

(***************************************************************************)
(* Volume, mute and playback rate: the player with every initial volume,   *)
(* muted and playbackRate prop, the dispatcher's actions and the surface's *)
(* volumechange and ratechange events                                      *)
(***************************************************************************)
InitVolume ==
  /\ \E v \in Volumes, m \in BOOLEAN, r \in {One, Rat(5, 1)} :
       Mounted([DefaultProps EXCEPT !.volume = v, !.muted = m, !.playbackRate = r])
  /\ pending = NoPending
  /\ surfaceSrc = NoSource
  /\ threw = FALSE
  /\ lastOp = "init"
  /\ call = NoCall
  /\ platform = DefaultPlatform
  /\ playlist = NoPlaylist
  /\ currentPlaylistIndex = 0

NextVolume ==
  \/ SrcPropChange
  \/ SetVolume
  \/ Mute
  \/ Unmute
  \/ ToggleMute
  \/ SetPlaybackRate
  \/ HandleVolumeChange
  \/ HandleRateChange

SpecVolume == InitVolume /\ [][NextVolume]_vars

InUnit(x) == ~RatLess(x, Zero) /\ ~RatLess(One, x)

\* C12: the stored volume lies in [0,1] in every reachable state, for every
\* initial volume prop and every volumechange event; setVolume(v) puts
\* clamp(v, 0, 1) in the surface and in the store for every v, and a second
\* setVolume(v) changes nothing
C12_VolumeClamped ==
  /\ InUnit(state.volume)
  /\ isNative =>
       \A v \in Volumes :
         LET once == actionsSetVolume(isNative, video, state, v)
             twice == actionsSetVolume(isNative, once.video, once.state, v)
         IN /\ once.state.volume = RatClamp(v, Zero, One)
            /\ once.video.volume = RatClamp(v, Zero, One)
            /\ twice = once

\* C13: the stored playbackRate lies in [0.25, 4] in every reachable state,
\* for every initial playbackRate prop and every ratechange event, and
\* setPlaybackRate(r) puts clamp(r, 0.25, 4) in the surface and in the store
C13_RateWithinPolicy ==
  /\ ~RatLess(state.playbackRate, MinRate)
  /\ ~RatLess(MaxRate, state.playbackRate)
  /\ isNative =>
       \A r \in Rates :
         LET once == actionsSetPlaybackRate(isNative, video, state, r)
         IN /\ once.state.playbackRate = RatClamp(r, MinRate, MaxRate)
            /\ once.video.playbackRate = RatClamp(r, MinRate, MaxRate)

MuteOps == {"mute", "unmute", "toggleMute"}

\* C14: mute, unmute and toggleMute change neither the stored nor the
\* surface volume; setVolume changes the mute flag only by clearing it, only
\* when the clamped volume is > 0 and the surface was muted; after each of
\* the four actions the store's isMuted equals the surface's muted flag
C14_MuteIndependentOfVolume ==
  [][ /\ lastOp' \in MuteOps =>
           /\ state'.volume = state.volume
           /\ video'.volume = video.volume
      /\ lastOp' = "setVolume" =>
           /\ state'.isMuted # state.isMuted =>
                ~state'.isMuted /\ RatLess(Zero, state'.volume) /\ video.muted
           /\ video'.muted # video.muted =>
                ~video'.muted /\ RatLess(Zero, video'.volume)
      /\ (lastOp' \in MuteOps \cup {"setVolume"} /\ isNative) =>
           state'.isMuted = video'.muted ]_vars

(***************************************************************************)
(* Controls visibility: the player with auto-hide on (the default delay)   *)
(* and off (controlsAutoHide = 0), playback starting and stopping, and the *)
(* pointer, touch, focus and timer events of the container                 *)
(***************************************************************************)
InitControls ==
  /\ \E d \in {0, HideDelay} : Mounted([DefaultProps EXCEPT !.controlsAutoHide = d])
  /\ pending = NoPending
  /\ surfaceSrc = NoSource
  /\ threw = FALSE
  /\ lastOp = "init"
  /\ call = NoCall
  /\ platform = DefaultPlatform
  /\ playlist = NoPlaylist
  /\ currentPlaylistIndex = 0

NextControls ==
  \/ Render
  \/ SrcPropChange
  \/ Play
  \/ PlayResolved
  \/ Pause
  \/ HandlePlay
  \/ HandlePause
  \/ MouseMove
  \/ MouseEnter
  \/ MouseLeave
  \/ TouchStart
  \/ FocusIn
  \/ FocusOut
  \/ HideTimeout

SpecControls == InitControls /\ [][NextControls]_vars

ControlsOps ==
  { "render", "mousemove", "mouseenter", "mouseleave", "touchstart",
    "focusin", "focusout", "hide timeout" }

\* C15: every step of the visibility timer invokes the visibility-change
\* callback exactly once, with the new value, when it changes the controls'
\* visibility, and not at all when it leaves the visibility as it was
C15_NotifiedOncePerChange ==
  [][ lastOp' \in ControlsOps =>
        controls'.calls = IF controls'.isVisible # controls.isVisible
                          THEN <<controls'.isVisible>>
                          ELSE <<>> ]_vars

\* C16: with a hide delay of 0 the controls are visible and no hide timer is
\* armed, in every reachable state
C16_ZeroDelayAlwaysVisible ==
  props.controlsAutoHide = 0 =>
    /\ controls.isVisible
    /\ ~controls.timer
    /\ state.controlsVisible

\* C16 witness: with delay 0, a tap while the controls are visible and the
\* video is playing has been handled, and the controls are still visible
C16_Witness ==
  /\ props.controlsAutoHide = 0
  /\ lastOp = "touchstart"
  /\ state.isPlaying
  /\ controls.isPlayingRef
  /\ controls.shown
  /\ controls.isVisible

C22_InputShowsAndRearms ==
  [][ props.controlsAutoHide > 0 =>
        /\ (\/ lastOp' \in {"mousemove", "mouseenter", "focusin"}
            \/ (lastOp' = "touchstart" /\ ~controls.isVisible)) =>
             /\ controls'.isVisible
             /\ controls'.timer = (controls'.isPlayingRef /\ ~controls'.isHovering)
        /\ (lastOp' = "mouseleave" /\ controls.isPlayingRef) => controls'.timer ]_vars

(***************************************************************************)
(* Auto-hide under fair scheduling: a commit React has scheduled is        *)
(* carried out, and a timeout that is not cleared fires.                   *)
(***************************************************************************)
SpecAutoHide ==
  InitControls /\ [][NextControls]_vars /\ WF_vars(Render) /\ WF_vars(HideTimeout)

InputOps == {"mousemove", "mouseenter", "mouseleave", "touchstart", "focusin", "focusout"}

\* playback is playing, the pointer is not hovering and focus is outside
AutoHideConditions ==
  /\ props.controlsAutoHide > 0
  /\ state.isPlaying
  /\ ~controls.isHovering
  /\ ~controls.focusWithin

\* the last render has been committed
Committed ==
  /\ stateRef = state
  /\ controls.isHoveringRef = controls.isHovering
  /\ controls.shown = controls.isVisible

\* C28: with a hide delay above 0, once playback stays playing, the pointer
\* stays off the player, focus stays outside it and no pointer, touch or
\* focus input arrives any more, the controls become hidden and stay hidden;
\* and in every committed state under these conditions a hide timer is
\* pending while the controls are visible
C28_AutoHideLiveness ==
  /\ (<>[]AutoHideConditions /\ <>[][lastOp' \notin InputOps]_vars)
       => <>[](~controls.isVisible)
  /\ []((AutoHideConditions /\ Committed /\ controls.isVisible) => controls.timer)

\* C28 witness: the timer has hidden the controls of a playing player
C28_Witness ==
  /\ lastOp = "hide timeout"
  /\ AutoHideConditions
  /\ ~controls.isVisible

(***************************************************************************)
(* useVideoPlayer (hooks/useVideoPlayer.ts): a component calls the hook    *)
(* and passes its ref to a VideoPlayer.  The hook returns                  *)
(* getStateFromRef() each time its component renders and subscribes to     *)
(* nothing, so its component renders only for reasons of its own.          *)
(***************************************************************************)
getStateFromRef(h, playerState) == IF h.attached THEN playerState ELSE defaultState

\* the VideoPlayer given the ref commits: useImperativeHandle sets ref.current
AttachRef ==
  /\ ~hook.attached
  /\ hook' = [hook EXCEPT !.attached = TRUE]
  /\ Returned("attach ref")
  /\ UNCHANGED <<state, stateRef, video, platform, pending, playlist,
                 currentPlaylistIndex, surfaceSrc, props, controls, pluginLog, call,
                 previousTimeRef, emitted>>

\* the hook's component renders: ref.current.getState() is stateRef.current
ConsumerRender ==
  /\ hook' = [hook EXCEPT !.state = getStateFromRef(hook, stateRef)]
  /\ hook' # hook
  /\ Returned("consumer render")
  /\ UNCHANGED <<state, stateRef, video, platform, pending, playlist,
                 currentPlaylistIndex, surfaceSrc, props, controls, pluginLog, call,
                 previousTimeRef, emitted>>

\* the proxy actions: if (ref.current) ref.current.play() / .pause()
HookPlay ==
  /\ IF hook.attached THEN play ELSE UNCHANGED <<video, pending, state>>
  /\ Returned("hook.play")
  /\ UNCHANGED <<stateRef, platform, playlist, currentPlaylistIndex, surfaceSrc, outer>>

HookPause ==
  /\ IF hook.attached THEN pause ELSE UNCHANGED <<video, pending, state>>
  /\ Returned("hook.pause")
  /\ UNCHANGED <<stateRef, platform, playlist, currentPlaylistIndex, surfaceSrc, outer>>

NextHook ==
  \/ Render
  \/ SrcPropChange
  \/ AttachRef
  \/ ConsumerRender
  \/ HookPlay
  \/ HookPause
  \/ PlayResolved
  \/ HandlePlay
  \/ HandlePause

\* React commits every scheduled state update; nothing schedules a render
\* of the hook's component
SpecHook == InitPlain /\ [][NextHook]_vars /\ WF_vars(Render)

\* C17: while no player is attached the hook's state is the default idle
\* state; once a player is attached, after every change of the player's
\* state the hook's component eventually observes a state equal to the
\* player's current snapshot
C17_ConsumerFollowsPlayer ==
  /\ [](~hook.attached => hook.state = defaultState)
  /\ (hook.attached /\ hook.state # state) ~> (hook.state = state)

(***************************************************************************)
(* Plugins: the player with a list of plugins, each giving the value its   *)
(* onBeforePlay and onBeforePause return ("void" when it returns nothing). *)
(* The only code that calls into a plugin is the initialization effect.    *)
(***************************************************************************)
PassPlugin == [onBeforePlay |-> "void", onBeforePause |-> "true"]
VetoPlugin == [onBeforePlay |-> "false", onBeforePause |-> "false"]

InitPlugins ==
  /\ \E ps \in {<<>>, <<PassPlugin>>, <<VetoPlugin>>, <<PassPlugin, VetoPlugin>>} :
       Mounted([DefaultProps EXCEPT !.plugins = ps])
  /\ pending = NoPending
  /\ surfaceSrc = NoSource
  /\ threw = FALSE
  /\ lastOp = "init"
  /\ call = NoCall
  /\ platform = DefaultPlatform
  /\ playlist = NoPlaylist
  /\ currentPlaylistIndex = 0

NextPlugins ==
  \/ Render
  \/ SrcPropChange
  \/ Play
  \/ PlayResolved
  \/ Pause
  \/ TogglePlay
  \/ Stop
  \/ HandlePlay
  \/ HandlePause
  \/ HandleEnded

SpecPlugins == InitPlugins /\ [][NextPlugins]_vars

Vetoed(name) == \E i \in 1..Len(props.plugins) : props.plugins[i][name] = "false"

\* C18: a play (respectively pause) that reaches the surface has been
\* preceded by a call of every plugin's onBeforePlay (respectively
\* onBeforePause), and when one of them returns false the surface's play
\* (respectively pause) is not invoked and the store is unchanged
C18_PreActionHooksGate ==
  [][ /\ (lastOp' = "play" /\ isNative /\ props.plugins # <<>>) =>
           "onBeforePlay" \in pluginLog'
      /\ (lastOp' = "pause" /\ isNative /\ props.plugins # <<>>) =>
           "onBeforePause" \in pluginLog'
      /\ (lastOp' = "play" /\ Vetoed("onBeforePlay")) =>
           /\ video' = video
           /\ pending' = pending
           /\ state' = state
      /\ (lastOp' = "pause" /\ Vetoed("onBeforePause")) =>
           /\ video' = video
           /\ state' = state ]_vars

\* C27: while the player stays mounted with its plugin list, no step calls a
\* lifecycle hook: the onInit of the mount is the only call, and onDestroy,
\* which belongs to the teardown, has not been called
C27_LifecycleOncePerMount ==
  /\ [](props.plugins # <<>> => "onDestroy" \notin pluginLog)
  /\ [][pluginLog' = pluginLog]_vars

(***************************************************************************)
(* utils/sourceDetector as a function: Init draws the argument of one      *)
(* call, the action applies parseSource to it                              *)
(***************************************************************************)
MaxTokens == 3

UrlTokens ==
  {"https://", "youtu.be/", "youtube.com/watch?v=", "vimeo.com/", "dai.ly/",
   "fb.watch/", "tiktok.com/@u/video/", "abc12345678", "1234567", "clip",
   "video", ".mp4", ".m3u8", ".mpd", "?x=1"}

Urls == UNION {[1..n -> UrlTokens] : n \in 1..MaxTokens}

SourceTypes ==
  {"file", "hls", "dash", "youtube", "vimeo", "dailymotion", "facebook", "tiktok"}

\* VideoSourceObject values, their type agreeing with the url or not
Descriptors == [type : SourceTypes, url : {SrcFile, SrcHls, SrcYouTube}]

Argument(fn, arg) == [fn |-> fn, arg |-> arg, result |-> <<>>]

InitUtils ==
  /\ Mounted(DefaultProps)
  /\ Idle
  /\ platform = DefaultPlatform
  /\ playlist = NoPlaylist
  /\ currentPlaylistIndex = 0

InitClassify ==
  /\ InitUtils
  /\ \/ \E url \in Urls : call = Argument("parseSource", url)
     \/ \E source \in Descriptors : call = Argument("parseSourceObject", source)

\* typeof source === 'string'
ParseSource ==
  /\ lastOp = "init"
  /\ call.fn = "parseSource"
  /\ call' = [call EXCEPT !.result = parseSource(call.arg)]
  /\ Returned("parseSource")
  /\ UNCHANGED <<state, stateRef, video, platform, pending, playlist,
                 currentPlaylistIndex, surfaceSrc, props, controls, hook, pluginLog,
                 previousTimeRef, emitted>>

ParseSourceObject ==
  /\ lastOp = "init"
  /\ call.fn = "parseSourceObject"
  /\ call' = [call EXCEPT !.result = parseSourceObject(call.arg)]
  /\ Returned("parseSourceObject")
  /\ UNCHANGED <<state, stateRef, video, platform, pending, playlist,
                 currentPlaylistIndex, surfaceSrc, props, controls, hook, pluginLog,
                 previousTimeRef, emitted>>

NextClassify ==
  \/ ParseSource
  \/ ParseSourceObject

SpecClassify == InitClassify /\ [][NextClassify]_vars

\* the URL ends in the suffix, or the suffix is followed by a query string
EndsInSuffix(source, suffix) ==
  \E i \in 1..Len(source) :
    /\ source[i] = suffix
    /\ (i = Len(source) \/ Head(Str(source[i + 1])) = "?")

Platforms == <<"youtube", "vimeo", "dailymotion", "facebook", "tiktok">>

PlatformMatches(name, url) ==
  CASE name = "youtube" -> extractYouTubeId(url)
    [] name = "vimeo" -> extractVimeoId(url)
    [] name = "dailymotion" -> extractDailymotionId(url)
    [] name = "facebook" -> extractFacebookId(url)
    [] name = "tiktok" -> extractTikTokId(url)

\* the first platform, in the order of Platforms, whose pattern the URL
\* matches; "file" when there is none
FirstPlatform(url) ==
  LET matching == {i \in 1..Len(Platforms) : PlatformMatches(Platforms[i], url)}
  IN IF matching = {} THEN "file"
     ELSE Platforms[CHOOSE i \in matching : \A j \in matching : i <= j]

MaxSeconds == 7325

Seconds == (-90)..MaxSeconds

InitTimeFormat ==
  /\ InitUtils
  /\ \E seconds \in Seconds, fn \in {"formatTime", "formatTimeVerbose"} :
       call = Argument(fn, seconds)

UtilStep(result, op) ==
  /\ call' = [call EXCEPT !.result = result]
  /\ Returned(op)
  /\ UNCHANGED <<state, stateRef, video, platform, pending, playlist,
                 currentPlaylistIndex, surfaceSrc, props, controls, hook, pluginLog,
                 previousTimeRef, emitted>>

FormatTime ==
  /\ lastOp = "init"
  /\ call.fn = "formatTime"
  /\ UtilStep(formatTime(call.arg), "formatTime")

FormatTimeVerbose ==
  /\ lastOp = "init"
  /\ call.fn = "formatTimeVerbose"
  /\ UtilStep(formatTimeVerbose(call.arg), "formatTimeVerbose")

ParseTime ==
  /\ lastOp \in {"formatTime", "formatTimeVerbose"}
  /\ UtilStep(parseTime(call.result), "parseTime")

\* formatTime(parseTime(formatTime(x)))
FormatParsed ==
  /\ lastOp = "parseTime"
  /\ call.fn = "formatTime"
  /\ ~call.result.nan
  /\ UtilStep(formatTime(call.result.n), "formatTime(parseTime)")

NextTimeFormat ==
  \/ FormatTime
  \/ FormatTimeVerbose
  \/ ParseTime
  \/ FormatParsed

SpecTimeFormat == InitTimeFormat /\ [][NextTimeFormat]_vars

\* C20: for every non-negative integer x, parseTime(formatTime(x)) = x and
\* parseTime(formatTimeVerbose(x)) = x, and formatTime of the parsed number
\* is the string formatTime(x) again
C20_ParseInvertsFormat ==
  (call.fn \in {"formatTime", "formatTimeVerbose"} /\ call.arg >= 0) =>
    /\ lastOp = "parseTime" => call.result = Number(call.arg)
    /\ lastOp = "formatTime(parseTime)" => call.result = formatTime(call.arg)

\* 3661 seconds have been written as "1h 1m 1s" and read back as 3661
C20_Witness ==
  /\ lastOp = "parseTime"
  /\ call.fn = "formatTimeVerbose"
  /\ call.arg = 3661
  /\ formatTimeVerbose(call.arg) = <<"1", "h", " ", "1", "m", " ", "1", "s">>
  /\ call.result = Number(3661)

(***************************************************************************)
(* Playlist: every PlaylistConfig, with startIndex inside and outside the  *)
(* list, the navigation actions and the auto-next of handleEnded           *)
(***************************************************************************)
InitPlaylist ==
  /\ InitCommon
  /\ platform = DefaultPlatform
  /\ playlist \in [ n : 0..MaxItems, startIndex : (-2)..(MaxItems + 1),
                    autoPlayNext : BOOLEAN, loop : BOOLEAN ]
  /\ currentPlaylistIndex = playlist.startIndex

NextPlaylist ==
  \/ SrcPropChange
  \/ Play
  \/ PlayResolved
  \/ HandlePlay
  \/ HandleEnded
  \/ NextTrack
  \/ PreviousTrack
  \/ SkipToTrack

SpecPlaylist == InitPlaylist /\ [][NextPlaylist]_vars

ValidCursor == currentPlaylistIndex \in 0..(playlist.n - 1)

\* a navigation call that moved to item t, and one that did nothing
MovedTo(t) ==
  /\ currentPlaylistIndex' = t
  /\ state'.source = ItemSrc(t)
  /\ ~threw'

Stayed ==
  /\ currentPlaylistIndex' = currentPlaylistIndex
  /\ state'.source = state.source
  /\ ~threw'

\* C6: with the cursor c at a valid index of an n-item playlist, nextTrack
\* moves to c+1, or at the last item to 0 under loop and nowhere otherwise;
\* previousTrack moves to c-1, or at item 0 to n-1 under loop and nowhere
\* otherwise; every move sets the store's source to the target item's src
C6_NextPreviousTrack ==
  [][ ValidCursor =>
        LET n == playlist.n
            c == currentPlaylistIndex
        IN /\ lastOp' = "nextTrack" =>
                IF c < n - 1 THEN MovedTo(c + 1)
                ELSE IF playlist.loop THEN MovedTo(0)
                ELSE Stayed
           /\ lastOp' = "previousTrack" =>
                IF c > 0 THEN MovedTo(c - 1)
                ELSE IF playlist.loop THEN MovedTo(n - 1)
                ELSE Stayed ]_vars

\* C6 witness: previousTrack at item 0 of a looping 3-item playlist has
\* wrapped to the last item
C6_Witness ==
  /\ lastOp = "previousTrack"
  /\ playlist.n = 3 /\ playlist.loop /\ playlist.startIndex = 0
  /\ currentPlaylistIndex = 2
  /\ state.source = ItemSrc(2)

NavOps == {"nextTrack", "previousTrack", "skipToTrack"}

\* C7: for every playlist configuration, startIndex outside [0, n-1]
\* included, no navigation call raises, a call either leaves cursor and
\* source unchanged (as skipToTrack does for an index out of range) or
\* moves to a valid index and sets the source to that item's src
C7_NavigationNeverRaises ==
  [][ lastOp' \in NavOps =>
        /\ ~threw'
        /\ \/ Stayed
           \/ /\ currentPlaylistIndex' \in 0..(playlist.n - 1)
              /\ state'.source = ItemSrc(currentPlaylistIndex') ]_vars

\* C8: when the surface reports 'ended' with autoPlayNext set and a next
\* item exists (or loop is set), the cursor advances to that item and both
\* the store's source and the source handed to the surface become its src
C8_AutoNextReachesSurface ==
  [][ ( /\ lastOp' = "ended event"
        /\ playlist.autoPlayNext
        /\ ValidCursor
        /\ (currentPlaylistIndex < playlist.n - 1 \/ playlist.loop) ) =>
        LET t == IF currentPlaylistIndex < playlist.n - 1
                 THEN currentPlaylistIndex + 1 ELSE 0
        IN /\ currentPlaylistIndex' = t
           /\ state'.source = ItemSrc(t)
           /\ surfaceSrc' = ItemSrc(t) ]_vars


(***************************************************************************)
(* Seeking: seek, seekForward and seekBackward of the dispatcher           *)
(* (hooks/index.ts:92-118), each call recorded with its argument.          *)
(***************************************************************************)
seekStep == 10

\* an optional number: <<>> is undefined
undefined == <<>>

Coalesce(value, default) == IF value = undefined THEN default ELSE value[1]

SeekTimes == -1..(MaxTime + 1)

SeekSeconds == {undefined} \cup {<<n>> : n \in -1..MaxTime}

SeekCall(fn, arg, time) ==
  /\ seek(time)
  /\ call' = Argument(fn, arg)
  /\ Returned(fn)
  /\ UNCHANGED pending

SeekTo == \E time \in SeekTimes : SeekCall("seek", <<time>>, time)

SeekForward ==
  \E seconds \in SeekSeconds :
    LET step == Coalesce(seconds, seekStep)
    IN SeekCall("seekForward", seconds, video.currentTime + step)

SeekBackward ==
  \E seconds \in SeekSeconds :
    LET step == Coalesce(seconds, seekStep)
    IN SeekCall("seekBackward", seconds, video.currentTime - step)

NextSeek ==
  \/ Render
  \/ SeekTo
  \/ SeekForward
  \/ SeekBackward
  \/ StoreSetDuration
  \/ HandleTimeUpdate
  \/ HandleDurationChange

SpecSeek == InitBuffer /\ [][NextSeek]_vars

\* the time a call asks for, from its argument and the surface's time before
Requested(c, before) ==
  CASE c.fn = "seek" -> c.arg[1]
    [] c.fn = "seekForward" -> before + Coalesce(c.arg, seekStep)
    [] c.fn = "seekBackward" -> before - Coalesce(c.arg, seekStep)

\* C23: after seek(t), seekForward(d) and seekBackward(d) the surface's and
\* the store's currentTime both equal the requested time (t, or the surface's
\* time before plus or minus d, seekStep when d is undefined) limited to
\* [0, D], D the surface's own duration, whatever the store's duration is
C23_SeekClampsToSurfaceDuration ==
  [][ lastOp' \in {"seek", "seekForward", "seekBackward"} =>
        LET t == Requested(call', video.currentTime)
            D == video.duration
            expected == IF t < 0 THEN 0 ELSE IF t > D THEN D ELSE t
        IN /\ video'.currentTime = expected
           /\ state'.currentTime = expected
           /\ video'.currentTime \in 0..D ]_vars

\* C23 witness: seekForward() with its default step has taken the time to
\* the surface's duration while the store holds another duration
C23_Witness ==
  /\ lastOp = "seekForward"
  /\ call.arg = undefined
  /\ video.duration > 0
  /\ state.duration # video.duration
  /\ video.currentTime = video.duration
  /\ state.currentTime = video.duration


(***************************************************************************)
(* stop() and the surface's own events: video.pause() on a playing surface *)
(* queues a 'pause' event, which handlePause processes after stop() has    *)
(* returned.  Each stop() is recorded with whether the surface was playing.*)
(***************************************************************************)
StopCall ==
  /\ stop
  /\ call' = Argument("stop", <<isNative /\ ~video.paused>>)

NextStop ==
  \/ Render
  \/ Play
  \/ PlayResolved
  \/ Pause
  \/ StopCall
  \/ HandlePlay
  \/ HandlePause
  \/ HandleTimeUpdate
  \/ HandleDurationChange

SpecStop == InitBuffer /\ [][NextStop]_vars

\* the last operation was a stop() on a playing surface
StoppedWhilePlaying == lastOp = "stop" /\ call.arg = <<TRUE>>

\* C29: when the 'pause' event of a stop() on a playing surface is processed,
\* the phase is still idle and the store's currentTime still 0
C29_StopSurvivesPauseEvent ==
  [][ (StoppedWhilePlaying /\ lastOp' = "pause event") =>
        /\ state'.playbackState = "idle"
        /\ state'.currentTime = 0 ]_vars


(***************************************************************************)
(* Seek notifications (VideoPlayer.tsx:242-259).  A seek on a surface with *)
(* metadata queues a 'seeking' event, kept here with the position playback *)
(* was at when the seek began, and a 'seeked' event that follows the       *)
(* 'seeking' events once the surface has settled on the last target.       *)
(***************************************************************************)
MaxSeeks == 2

Callback(name, data) == [name |-> name, data |-> data]

SeekRequest ==
  \E time \in 0..MaxTime :
    /\ Loaded /\ video.duration > 0
    /\ Len(pending.seeking) < MaxSeeks
    /\ seek(time)
    /\ pending' = [pending EXCEPT !.seeking = Append(@, video.currentTime),
                                  !.seeked = TRUE]
    /\ Returned("seek")
    /\ UNCHANGED call

handleSeeking == <<Callback("onSeek", <<previousTimeRef, video.currentTime>>)>>

HandleSeeking ==
  /\ pending.seeking # <<>>
  /\ pending' = [pending EXCEPT !.seeking = Tail(@)]
  /\ emitted' = handleSeeking
  /\ Returned("seeking event")
  /\ UNCHANGED <<state, stateRef, video, platform, playlist, currentPlaylistIndex,
                 surfaceSrc, props, controls, hook, pluginLog, call,
                 previousTimeRef>>

HandleSeeked ==
  /\ pending.seeking = <<>> /\ pending.seeked
  /\ pending' = [pending EXCEPT !.seeked = FALSE]
  /\ previousTimeRef' = video.currentTime
  /\ Returned("seeked event")
  /\ UNCHANGED <<state, stateRef, video, platform, playlist, currentPlaylistIndex,
                 surfaceSrc, props, controls, hook, pluginLog, call, emitted>>

NextSeekEvents ==
  \/ Render
  \/ SeekRequest
  \/ HandleSeeking
  \/ HandleSeeked
  \/ HandleTimeUpdate
  \/ HandleDurationChange

SpecSeekEvents == InitBuffer /\ [][NextSeekEvents]_vars

\* C26: every 'seeking' event emits exactly one seek notification, whose
\* toTime is the surface's current time and whose fromTime is the position
\* playback was at when that seek began
C26_SeekReportsFromAndTo ==
  [][ lastOp' = "seeking event" =>
        emitted' = <<Callback("onSeek", <<Head(pending.seeking), video.currentTime>>)>> ]_vars


(***************************************************************************)
(* Buffering notifications (VideoPlayer.tsx:166-175, 210-223): the bridge's*)
(* handlers for 'play', 'pause', 'waiting' and 'playing', each with the    *)
(* callbacks it invokes.                                                   *)
(***************************************************************************)
handlePlay == <<Callback("onPlay", <<>>)>>

handlePause == <<Callback("onPause", <<>>)>>

handleWaiting == <<Callback("onBuffer", <<>>)>>

handlePlaying_AlsoPlay == <<Callback("onPlay", <<>>), Callback("onBufferEnd", <<>>)>>

handlePlaying == <<Callback("onBufferEnd", <<>>)>>

\* a media event of the surface: the handler's state update and callbacks
MediaEvent(op, playbackState, callbacks) ==
  /\ Loaded
  /\ state' = setPlaybackState(state, playbackState)
  /\ emitted' = callbacks
  /\ Returned(op)
  /\ UNCHANGED <<stateRef, video, platform, pending, playlist, currentPlaylistIndex,
                 surfaceSrc, props, controls, hook, pluginLog, call,
                 previousTimeRef>>

PlayEvent == ~video.paused /\ MediaEvent("play event", "playing", handlePlay)

PauseEvent == video.paused /\ MediaEvent("pause event", "paused", handlePause)

WaitingEvent == ~video.paused /\ MediaEvent("waiting event", "buffering", handleWaiting)

PlayingEvent == ~video.paused /\ MediaEvent("playing event", "playing", handlePlaying)

NextBuffering ==
  \/ Render
  \/ Play
  \/ PlayResolved
  \/ PlayRejected
  \/ Pause
  \/ TogglePlay
  \/ Stop
  \/ PlayEvent
  \/ PauseEvent
  \/ WaitingEvent
  \/ PlayingEvent
  \/ HandleEnded
  \/ HandleCanPlay
  \/ HandleError

SpecBuffering == InitBuffer /\ [][NextBuffering]_vars

Invocations(callbacks, name) ==
  Cardinality({i \in 1..Len(callbacks) : callbacks[i].name = name})

\* C25: the phase becomes 'buffering', and isBuffering true, only in the
\* handler of a 'waiting' event, which invokes onBuffer; the handler of a
\* 'playing' event sets the phase to 'playing' and invokes onBufferEnd
\* exactly once and onPlay not at all
C25_BufferingNormalized ==
  [][ /\ ((state'.playbackState = "buffering" /\ state.playbackState # "buffering")
            \/ (state'.isBuffering /\ ~state.isBuffering)) =>
           lastOp' = "waiting event"
      /\ lastOp' = "waiting event" =>
           /\ state'.playbackState = "buffering"
           /\ state'.isBuffering
           /\ Invocations(emitted', "onBuffer") = 1
      /\ lastOp' = "playing event" =>
           /\ state'.playbackState = "playing"
           /\ Invocations(emitted', "onBufferEnd") = 1
           /\ Invocations(emitted', "onPlay") = 0 ]_vars

\* C25 witness: playback has resumed from buffering, and the 'playing'
\* event's only callback was onBufferEnd
C25_Witness ==
  /\ lastOp = "playing event"
  /\ state.playbackState = "playing"
  /\ ~state.isBuffering
  /\ stateRef.isBuffering
  /\ emitted = <<Callback("onBufferEnd", <<>>)>>


(***************************************************************************)
(* Captions: setActiveCaption of the dispatcher (hooks/index.ts:270-281)   *)
(* and the default track's delayed activation scheduled at                 *)
(* 'loadedmetadata' (VideoPlayer.tsx:261-286).  The player has one <track> *)
(* per caption; source changes stay among native sources, so the <video>   *)
(* element and its text tracks persist.                                    *)
(***************************************************************************)
RECURSIVE CaptionLists(_)
CaptionLists(n) ==
  IF n = 0 THEN {<<>>}
  ELSE LET shorter == CaptionLists(n - 1)
       IN shorter \cup {Append(c, [default |-> d]) : c \in shorter, d \in BOOLEAN}

InitCaptions ==
  /\ \E captions \in CaptionLists(MaxTracks) :
       Mounted([DefaultProps EXCEPT !.captions = captions])
  /\ Idle
  /\ call = NoCall
  /\ platform = DefaultPlatform
  /\ playlist = NoPlaylist
  /\ currentPlaylistIndex = 0

\* tracks[i].mode = i === index ? 'showing' : 'hidden', for a 0-based index
selectTrack(tracks, index) ==
  [i \in 1..Len(tracks) |-> IF i - 1 = index THEN "showing" ELSE "hidden"]

SetActiveCaption ==
  \E index \in -1..MaxTracks :
    /\ IF isNative
       THEN /\ video' = [video EXCEPT !.textTracks = selectTrack(@, index)]
            /\ state' = setActiveCaption(state, index)
       ELSE UNCHANGED <<video, state>>
    /\ Returned("setActiveCaption")
    /\ UNCHANGED <<stateRef, platform, pending, playlist, currentPlaylistIndex,
                   surfaceSrc, outer>>

\* the callback handed to setTimeout(..., 100) by handleLoadedMetadata
CaptionTimeout ==
  /\ pending.captionTimeout > 0
  /\ pending' = [pending EXCEPT !.captionTimeout = @ - 1]
  /\ video' = [video EXCEPT
                 !.textTracks = selectTrack(@, defaultCaptionIndex(props.captions))]
  /\ state' = setActiveCaption(state, defaultCaptionIndex(props.captions))
  /\ Returned("caption timeout")
  /\ UNCHANGED <<stateRef, platform, playlist, currentPlaylistIndex, surfaceSrc,
                 outer>>

NativeSrcChange == \E s \in {SrcFile, SrcHls} : SrcProp(s)

NextCaptions ==
  \/ Render
  \/ NativeSrcChange
  \/ SetActiveCaption
  \/ CaptionTimeout
  \/ HandleDurationChange
  \/ HandleLoadedMetadata

SpecCaptions == InitCaptions /\ [][NextCaptions]_vars

\* 0-based indices of the text tracks that are showing
Showing(v) == {i - 1 : i \in {j \in 1..Len(v.textTracks) : v.textTracks[j] = "showing"}}

\* C24: at most one text track is showing, the store's activeCaptionIndex is
\* -1 exactly when none is showing and otherwise the index of the showing
\* track, and it lies in [-1, trackCount - 1]
C24_SingleActiveCaption ==
  /\ Cardinality(Showing(video)) <= 1
  /\ (state.activeCaptionIndex = -1) = (Showing(video) = {})
  /\ Showing(video) # {} => Showing(video) = {state.activeCaptionIndex}
  /\ state.activeCaptionIndex \in -1..(Len(video.textTracks) - 1)

\* C30: a default-caption timeout that fires right after a setActiveCaption
\* call or a source change made while it was pending changes neither the
\* tracks' modes nor the store's activeCaptionIndex; one that fires right
\* after the 'loadedmetadata' that scheduled it shows exactly the default
\* track
C30_DelayedDefaultNeverOverrides ==
  [][ lastOp' = "caption timeout" =>
        /\ lastOp \in {"setActiveCaption", "srcProp"} =>
             /\ video'.textTracks = video.textTracks
             /\ state'.activeCaptionIndex = state.activeCaptionIndex
        /\ lastOp = "loadedmetadata event" =>
             /\ Showing(video') = {defaultCaptionIndex(props.captions)}
             /\ state'.activeCaptionIndex = defaultCaptionIndex(props.captions) ]_vars

====
